---- MODULE Spec2Model ----
(***************************************************************************)
(* A model of the variable computation engine of openfisca-core.           *)
(*                                                                         *)
(* src/openfisca_core/simulations.py holds the two sides of an unresolved  *)
(* merge: the table-driven Simulation (lines 51-652: _preproc, _compute,   *)
(* clear, ScenarioSimulation, SurveySimulation) and the entity-driven      *)
(* Simulation (lines 654-694: __init__, compute, set_entities,             *)
(* get_holder_by_name).  Both sides are modelled.  The Entity, the Holder, *)
(* the formulas and the TaxBenefitSystem table are not part of the source  *)
(* files; they are modelled from the written specification (sections 4.2   *)
(* to 4.4) and marked so in MODEL_MAP.json.                                *)
(***************************************************************************)
EXTENDS Integers, Sequences, FiniteSets, TLC

VARIABLES
    entity_by_column_name,  \* per Simulation: None, or column name -> entity kind
    holder_by_name,         \* per Simulation: column name -> Holder (created lazily)
    stack,                  \* per Simulation: the formulas in evaluation, outermost first
    result,                 \* per Simulation: outcome of the last external compute request
    invoked,                \* per Simulation and column: number of formula invocations
    to_computed,            \* per Simulation and column: number of EMPTY -> COMPUTED steps
    last_call,              \* the last Simulation.compute call made (external or recursive)
    compact_legislation,    \* per Simulation: the legislation snapshot formulas read
    default_compact_legislation,  \* per Simulation: the baseline snapshot
    tax_benefit_system,     \* the registry of columns and formulas in use
    instances,              \* the Simulations that have been constructed
    step,                   \* the operation that made the last step
    raised,                 \* per Simulation: the kinds of error raised so far
    \* the table-driven Simulation (simulations.py, lines 51-652)
    reforme,                \* Boolean signaling reform mode
    P,                      \* the parameters of the simulation, or None
    P_default,              \* the default parameters, or None
    disabled_prestations,   \* None, or the names of the prestations to disable
    input_table,            \* None, or the input array (salary)
    output_table,           \* None, or a reference to a table
    output_table_default,   \* None, or a reference to a table
    tables,                 \* the tables that the references denote
    data,                   \* None, or the data of the last _compute
    data_default,           \* None, or the default data of the last _compute
    failure,                \* the exception of the last operation, "" without one
    same_object,            \* whether P and P_default are one parameter object
    last_params,            \* None, or the arguments of the last set_param
    chunks_count,           \* SurveySimulation: the number of chunks configured
    alternative_scenario,   \* ScenarioSimulation: None, or the alternative test case
    \* a column descriptor and its json_to_python converter (columns.py)
    column,                 \* the descriptor: class, _default, enum, index_by_slug
    json_value,             \* the last value given to column.json_to_python
    python_value,           \* what the converter returned: a value and an error
    exported                \* what the last two calls of column.to_json returned

engine_vars == <<entity_by_column_name, holder_by_name, stack, result, invoked,
                 to_computed, last_call, compact_legislation,
                 default_compact_legislation, tax_benefit_system, instances, step,
                 raised>>

\* the variables of the entity-driven Simulation but step
engine_state == <<entity_by_column_name, holder_by_name, stack, result, invoked,
                  to_computed, last_call, compact_legislation,
                  default_compact_legislation, tax_benefit_system, instances,
                  raised>>

table_vars == <<reforme, P, P_default, disabled_prestations, input_table,
                output_table, output_table_default, tables, data, data_default,
                failure, same_object, last_params, chunks_count,
                alternative_scenario>>

column_vars == <<column, json_value, python_value, exported>>

vars == <<engine_vars, table_vars, column_vars>>

\* Python's None and a value that is not None: an optional value is a sequence
\* of length 0 or 1
None == <<>>
Some(x) == <<x>>
Get(opt) == opt[1]

----------------------------------------------------------------------------
(* Bounds of the model *)

\* members of the entity "ind" (the scenario of the specification has 3)
MemberCount == 3
\* members of the entity "men"
HouseholdCount == 2
\* the interpreter's recursion limit, in frames of formula evaluation
MaxDepth == 5
\* the invocation counters saturate here
MaxInvoked == 3

----------------------------------------------------------------------------
(* The registries: entities, columns, formulas *)

Simulations == {"actual", "baseline"}

EntityKinds == {"ind", "men"}

\* Four tax and benefit systems: "fiscal" has formulas that share required
\* inputs, "cyclic" has formulas that require each other, "flat" has the one
\* formula of the scenario of the specification, "faulty" has a formula that
\* raises on some inputs.
TaxBenefitSystems == {"fiscal", "cyclic", "flat", "faulty"}

\* column_by_name of each entity: the Variable Descriptors it declares
ColumnNames(tbs, entity) ==
    CASE tbs = "fiscal" /\ entity = "ind" -> {"salary", "age", "tax", "bonus", "net"}
      [] tbs = "fiscal" /\ entity = "men" -> {"zone"}
      [] tbs = "cyclic" /\ entity = "ind" -> {"A", "B", "C"}
      [] tbs = "flat" /\ entity = "ind"   -> {"salary", "tax"}
      [] tbs = "faulty" /\ entity = "ind" -> {"salary", "parts", "quotient", "relief"}
      [] OTHER -> {}

Columns(tbs) == UNION {ColumnNames(tbs, e) : e \in EntityKinds}

AllColumns == UNION {Columns(tbs) : tbs \in TaxBenefitSystems}

\* a name that no entity declares
UnknownNames == {"ghost"}

RequestNames(tbs) == Columns(tbs) \cup UnknownNames

\* every name a Holder may be asked for
AllNames == AllColumns \cup UnknownNames

member_count(entity) == IF entity = "ind" THEN MemberCount ELSE HouseholdCount

\* required_inputs of the Formula Binding of a column, in request order;
\* the empty sequence for a column without formula
required_inputs(column_name) ==
    CASE column_name = "tax"   -> <<"salary">>
      [] column_name = "bonus" -> <<"tax", "salary">>
      [] column_name = "net"   -> <<"tax", "bonus">>
      [] column_name = "A"     -> <<"B">>
      [] column_name = "B"     -> <<"C">>
      [] column_name = "C"     -> <<"A">>
      [] column_name = "quotient" -> <<"salary", "parts">>
      [] column_name = "relief"   -> <<"quotient">>
      [] OTHER                 -> <<>>

HasFormula(column_name) == required_inputs(column_name) # <<>>

\* compute_fn of each Formula Binding: element-wise over the resolved inputs.
\* Rates are held in tenths: rate 1 is 0.1, rate 2 is 0.2.
compute_fn(column_name, args, legislation) ==
    LET n == Len(args[1]) IN
    CASE column_name = "tax"   -> [i \in 1..n |-> (args[1][i] * legislation.rate) \div 10]
      [] column_name = "bonus" -> [i \in 1..n |-> args[2][i] - args[1][i]]
      [] column_name = "net"   -> [i \in 1..n |-> args[2][i] - args[1][i]]
      [] column_name = "quotient" -> [i \in 1..n |-> args[1][i] \div args[2][i]]
      [] OTHER                 -> [i \in 1..n |-> args[1][i] + 1]

\* the exception compute_fn raises on these inputs, "" when it raises none
formula_raises(column_name, args) ==
    IF column_name = "quotient" /\ \E i \in 1..Len(args[2]) : args[2][i] = 0
        THEN "ZeroDivisionError"
        ELSE ""

----------------------------------------------------------------------------
(* columns.py: the default value of a descriptor *)

\* the class attribute _default of the column class of each descriptor
ClassDefault(column_name) == IF column_name = "age" THEN 0 - 9999 ELSE 0

\* the default argument given to the constructor of each descriptor
DefaultArgument(column_name) ==
    CASE column_name = "zone"   -> Some(4)
      [] column_name = "salary" -> Some(0)
      [] OTHER                  -> None

\* Column.__init__ without its default argument
ColumnDefaultOfClass(column_name) == ClassDefault(column_name)

\* Column.__init__: the default argument replaces the class default when it
\* is given and differs from it
ColumnDefault(column_name) ==
    LET default == DefaultArgument(column_name) IN
    IF default # None /\ Get(default) # ClassDefault(column_name)
        THEN Get(default)
        ELSE ClassDefault(column_name)

----------------------------------------------------------------------------
(* simulations.py, lines 654-694: the entity-driven Simulation *)

\* TaxBenefitSystem.get_compact_legislation(date): the baseline snapshot
BaselineLegislation == [rate |-> 2]

\* the snapshot of a reform, handed to the constructor
ReformLegislation == [rate |-> 1]

\* the compact_legislation argument each Simulation is constructed with
GivenLegislation(s) == IF s = "actual" THEN Some(ReformLegislation) ELSE None

\* Simulation.__init__ ignoring the snapshot it is given
InitCompactLegislationOfSystem(given) == BaselineLegislation

\* Simulation.__init__: self.compact_legislation
InitCompactLegislation(given) ==
    IF given # None THEN Get(given) ELSE BaselineLegislation

\* Simulation.__init__: self.default_compact_legislation
InitDefaultCompactLegislation(given) == BaselineLegislation

\* a dict that maps every column to the entity of the individuals
BuildEntityByColumnNameOfInd(tbs) == [column_name \in Columns(tbs) |-> "ind"]

\* Simulation.set_entities: the dict built from every entity's column_by_name
BuildEntityByColumnName(tbs) ==
    [column_name \in Columns(tbs) |->
        CHOOSE entity \in EntityKinds : column_name \in ColumnNames(tbs, entity)]

\* Simulation.compute, the test of the assert statement: the call is refused
\* when a set was passed and column_name is in it
InfiniteLoop(column_name, requested_columns_name) ==
    /\ requested_columns_name # None
    /\ column_name \in Get(requested_columns_name)

\* Simulation.compute with an assert that reports the requested column alone
SimulationComputeNamesColumn(ebc, column_name, requested_columns_name) ==
    IF InfiniteLoop(column_name, requested_columns_name)
        THEN [kind |-> "CyclicDependencyError", column |-> column_name,
              names |-> {column_name}]
    ELSE IF ebc = None
        THEN [kind |-> "TypeError", column |-> column_name, names |-> {}]
    ELSE IF column_name \notin DOMAIN Get(ebc)
        THEN [kind |-> "UnknownVariableError", column |-> column_name, names |-> {}]
    ELSE [kind |-> "entity", entity |-> Get(ebc)[column_name], column |-> column_name,
          requested |-> IF requested_columns_name = None
                            THEN {} ELSE Get(requested_columns_name)]

\* Simulation.compute with the entity looked up before the assert
SimulationComputeLookupFirst(ebc, column_name, requested_columns_name) ==
    IF ebc = None
        THEN [kind |-> "TypeError", column |-> column_name, names |-> {}]
    ELSE IF column_name \notin DOMAIN Get(ebc)
        THEN [kind |-> "UnknownVariableError", column |-> column_name, names |-> {}]
    ELSE IF InfiniteLoop(column_name, requested_columns_name)
        THEN [kind |-> "CyclicDependencyError", column |-> column_name,
              names |-> Get(requested_columns_name)]
    ELSE [kind |-> "entity", entity |-> Get(ebc)[column_name], column |-> column_name,
          requested |-> IF requested_columns_name = None
                            THEN {} ELSE Get(requested_columns_name)]

\* Simulation.compute with a lookup that falls back to the entity "ind" for
\* a name that no entity declares
SimulationComputeDefaultEntity(ebc, column_name, requested_columns_name) ==
    IF InfiniteLoop(column_name, requested_columns_name)
        THEN [kind |-> "CyclicDependencyError", column |-> column_name,
              names |-> Get(requested_columns_name)]
    ELSE IF ebc = None
        THEN [kind |-> "TypeError", column |-> column_name, names |-> {}]
    ELSE [kind |-> "entity",
          entity |-> IF column_name \in DOMAIN Get(ebc)
                         THEN Get(ebc)[column_name] ELSE "ind",
          column |-> column_name,
          requested |-> IF requested_columns_name = None
                            THEN {} ELSE Get(requested_columns_name)]

\* Simulation.compute up to the call of the entity: the error it raises, or
\* the entity it delegates to with the set it passes on
SimulationCompute(ebc, column_name, requested_columns_name) ==
    IF InfiniteLoop(column_name, requested_columns_name)
        THEN [kind |-> "CyclicDependencyError", column |-> column_name,
              names |-> Get(requested_columns_name)]
    ELSE IF ebc = None
        THEN [kind |-> "TypeError", column |-> column_name, names |-> {}]
    ELSE IF column_name \notin DOMAIN Get(ebc)
        THEN [kind |-> "UnknownVariableError", column |-> column_name, names |-> {}]
    ELSE [kind |-> "entity", entity |-> Get(ebc)[column_name], column |-> column_name,
          requested |-> IF requested_columns_name = None
                            THEN {} ELSE Get(requested_columns_name)]

\* Simulation.get_holder_by_name.  The argument default is None when the caller
\* gives none (the UnboundLocalError marker of the source) and Some(d) otherwise.
get_holder_by_name(s, column_name, default) ==
    IF entity_by_column_name[s] = None
        THEN [kind |-> "TypeError", holder |-> None]
    ELSE IF column_name \notin DOMAIN Get(entity_by_column_name[s])
        THEN [kind |-> "KeyError", holder |-> None]
    ELSE LET entity == Get(entity_by_column_name[s])[column_name] IN
         IF holder_by_name[s][entity][column_name].state # "ABSENT"
             THEN [kind |-> "holder",
                   holder |-> Some(holder_by_name[s][entity][column_name])]
         ELSE IF default = None
             THEN [kind |-> "KeyError", holder |-> None]
         ELSE [kind |-> "default", holder |-> default]

----------------------------------------------------------------------------
(* The Entity and its Holders (specification, sections 4.3 and 4.4) *)

Filled(n, value) == [i \in 1..n |-> value]

\* a Holder that does not exist yet, and a Holder just created
NoHolder == [state |-> "ABSENT", values |-> <<>>]
NewHolder == [state |-> "EMPTY", values |-> <<>>]

\* the names that have a Holder in an entity
HolderNames(s, entity) ==
    {c \in AllNames : holder_by_name[s][entity][c].state # "ABSENT"}

\* the Holder of a column in an entity, created on first access
get_or_new_holder(s, entity, column_name) ==
    IF column_name \in HolderNames(s, entity)
        THEN holder_by_name[s][entity][column_name]
        ELSE NewHolder

\* one holder_by_name for every Simulation: a Holder stored by one is stored
\* for all
WithHolderShared(s, entity, column_name, holder) ==
    [t \in Simulations |->
        [holder_by_name[t] EXCEPT ![entity][column_name] = holder]]

\* holder_by_name of one entity with one Holder stored
WithHolder(s, entity, column_name, holder) ==
    [holder_by_name EXCEPT ![s][entity][column_name] = holder]

\* the names of the formulas in evaluation in a Simulation
InProgress(s) == {stack[s][k].name : k \in 1..Len(stack[s])}

\* a set shared along the evaluation: the names of the inputs already
\* resolved are still in it
DependencyRequestedShared(s) ==
    LET top == stack[s][Len(stack[s])]
        inputs == required_inputs(top.name) IN
    top.requested \cup {top.name} \cup {inputs[i] : i \in 1..Len(top.args)}

\* the set an Entity passes to Simulation.compute for a required input of
\* the formula on top of the stack: carried by value, the name added
DependencyRequested(s) ==
    LET top == stack[s][Len(stack[s])] IN top.requested \cup {top.name}

\* a fast path for input data only
FastPathOfInput(holder) == holder.state = "INPUT"

\* a fast path for computed data only
FastPathOfComputed(holder) == holder.state = "COMPUTED"

\* whether a populated Holder answers the request without evaluation
FastPath(holder) == holder.state # "EMPTY"

Bump(n) == IF n < MaxInvoked THEN n + 1 ELSE n

\* the outcome of an external compute request: kind is "none" before the
\* first request, "pending" during the evaluation, "value", or the error;
\* column and origin are those of the external request, at is the column of
\* the call that raised
Outcome(kind, request, at, names, values) ==
    [kind |-> kind, column |-> request.column, origin |-> request.origin,
     at |-> at, names |-> names, values |-> values]

\* the external request that a call belongs to
RequestOf(s, column_name, origin) ==
    IF stack[s] = <<>>
        THEN [column |-> column_name, origin |-> origin]
        ELSE [column |-> result[s].column, origin |-> result[s].origin]

\* an exception caught on the way: the external caller receives the default
\* value of the column in its place
RaiseAsDefault(s, request, error) ==
    /\ stack' = [stack EXCEPT ![s] = <<>>]
    /\ result' = [result EXCEPT ![s] =
            Outcome("value", request, error.column, {},
                    Filled(MemberCount, ColumnDefault(error.column)))]
    /\ UNCHANGED raised

\* an exception leaves every frame: the external caller receives it
Raise(s, request, error) ==
    /\ stack' = [stack EXCEPT ![s] = <<>>]
    /\ result' = [result EXCEPT ![s] =
            Outcome(error.kind, request, error.column, error.names, <<>>)]
    /\ raised' = [raised EXCEPT ![s] = @ \cup {error.kind}]

\* a value goes to the caller: the formula in evaluation on top of frames,
\* or the external caller
Return(s, request, frames, values) ==
    IF frames = <<>>
        THEN /\ stack' = [stack EXCEPT ![s] = <<>>]
             /\ result' = [result EXCEPT ![s] =
                    Outcome("value", request, request.column, {}, values)]
             /\ UNCHANGED raised
        ELSE LET n == Len(frames) IN
             /\ stack' = [stack EXCEPT ![s] =
                    [frames EXCEPT ![n].args = Append(@, values)]]
             /\ UNCHANGED <<result, raised>>

\* Entity.compute for a column of the entity (steps 3 to 5 of section 4.4),
\* up to the first request of a required input
EntityCompute(s, request, entity, column_name, requested) ==
    LET holder == get_or_new_holder(s, entity, column_name) IN
    IF FastPath(holder)
        THEN /\ Return(s, request, stack[s], holder.values)
             /\ UNCHANGED holder_by_name
    ELSE IF HasFormula(column_name)
        THEN IF Len(stack[s]) >= MaxDepth
                 THEN /\ Raise(s, request, [kind |-> "RecursionError",
                                            column |-> column_name, names |-> {}])
                      /\ UNCHANGED holder_by_name
                 ELSE /\ stack' = [stack EXCEPT ![s] = Append(@,
                            [name |-> column_name, entity |-> entity,
                             requested |-> requested, args |-> <<>>])]
                      /\ holder_by_name' = WithHolder(s, entity, column_name, holder)
                      /\ result' = [result EXCEPT ![s] =
                            Outcome("pending", request, request.column, {}, <<>>)]
                      /\ UNCHANGED raised
    ELSE LET values == Filled(member_count(entity), ColumnDefault(column_name)) IN
         /\ holder_by_name' = WithHolder(s, entity, column_name,
                [state |-> "EMPTY", values |-> values])
         /\ Return(s, request, stack[s], values)

\* one call of Simulation.compute, by the external caller or by an Entity
Call(s, column_name, requested_columns_name, origin) ==
    LET out == SimulationCompute(entity_by_column_name[s], column_name,
                                 requested_columns_name)
        request == RequestOf(s, column_name, origin) IN
    /\ last_call' = Some([sim |-> s, column |-> column_name, origin |-> origin,
                          requested |-> requested_columns_name,
                          in_progress |-> InProgress(s), outcome |-> out.kind,
                          found |-> IF out.kind = "entity"
                              THEN holder_by_name[s][out.entity][column_name].state
                              ELSE "none"])
    /\ IF out.kind = "entity"
           THEN EntityCompute(s, request, out.entity, column_name, out.requested)
           ELSE /\ Raise(s, request, out)
                /\ UNCHANGED holder_by_name
    /\ UNCHANGED <<entity_by_column_name, invoked, to_computed,
                   compact_legislation, default_compact_legislation,
                   tax_benefit_system, instances>>
    /\ UNCHANGED <<table_vars, column_vars>>

----------------------------------------------------------------------------
(* Operations *)

\* simulation.set_entities(entities)
set_entities(s) ==
    /\ stack[s] = <<>>
    /\ entity_by_column_name' =
            [entity_by_column_name EXCEPT ![s] =
                Some(BuildEntityByColumnName(tax_benefit_system))]
    /\ step' = "set_entities"
    /\ UNCHANGED <<holder_by_name, stack, result, invoked, to_computed, last_call,
                   compact_legislation, default_compact_legislation,
                   tax_benefit_system, instances, raised>>
    /\ UNCHANGED <<table_vars, column_vars>>

\* simulation.compute(column_name): the external entry point
compute(s, column_name) ==
    /\ stack[s] = <<>>
    /\ Call(s, column_name, None, "external")
    /\ step' = "compute"

\* simulation.compute(column_name, requested_columns_name) called with a set
\* that holds column_name
compute_in_flight(s, column_name) ==
    /\ stack[s] = <<>>
    /\ Call(s, column_name, Some({column_name}), "explicit")
    /\ step' = "compute_in_flight"

\* the formula on top of the stack requests its next required input
request_input(s) ==
    /\ stack[s] # <<>>
    /\ LET top == stack[s][Len(stack[s])]
           inputs == required_inputs(top.name) IN
       /\ Len(top.args) < Len(inputs)
       /\ Call(s, inputs[Len(top.args) + 1], Some(DependencyRequested(s)), "entity")
    /\ step' = "request_input"

\* the formula on top of the stack has its inputs: it is invoked; the result
\* is stored as COMPUTED and returned, or the exception it raises leaves
\* Entity.compute and Simulation.compute
invoke_formula(s) ==
    /\ stack[s] # <<>>
    /\ LET n == Len(stack[s])
           top == stack[s][n]
           error == formula_raises(top.name, top.args)
           values == compute_fn(top.name, top.args, compact_legislation[s])
           before == get_or_new_holder(s, top.entity, top.name) IN
       /\ Len(top.args) = Len(required_inputs(top.name))
       /\ invoked' = [invoked EXCEPT ![s][top.name] = Bump(@)]
       /\ IF error # ""
              THEN /\ Raise(s, RequestOf(s, top.name, "external"),
                            [kind |-> error, column |-> top.name, names |-> {}])
                   /\ UNCHANGED <<holder_by_name, to_computed>>
              ELSE /\ holder_by_name' = WithHolder(s, top.entity, top.name,
                            [state |-> "COMPUTED", values |-> values])
                   /\ to_computed' = [to_computed EXCEPT ![s][top.name] =
                            IF before.state = "EMPTY" THEN Bump(@) ELSE @]
                   /\ Return(s, RequestOf(s, top.name, "external"),
                             SubSeq(stack[s], 1, n - 1), values)
    /\ step' = "invoke_formula"
    /\ UNCHANGED <<entity_by_column_name, last_call, compact_legislation,
                   default_compact_legislation, tax_benefit_system, instances>>
    /\ UNCHANGED <<table_vars, column_vars>>

----------------------------------------------------------------------------
(* The data loader and the Holders (specification, sections 3 and 4.3) *)

\* a check that accepts an array of any length
LengthAgreesAlways(entity, values) == TRUE

\* the array has one element for each member of the entity
LengthAgrees(entity, values) == Len(values) = member_count(entity)

\* every Holder of the entity cleared
ClearedAll(s, entity, column_name) ==
    [holder_by_name EXCEPT ![s][entity] =
        [c \in AllNames |-> IF @[c].state = "ABSENT" THEN @[c] ELSE NewHolder]]

\* the Holder of the column cleared: EMPTY, its array released
Cleared(s, entity, column_name) == WithHolder(s, entity, column_name, NewHolder)

\* the entity that declares a column of the registry in use
DeclaringEntity(column_name) ==
    CHOOSE entity \in EntityKinds :
        column_name \in ColumnNames(tax_benefit_system, entity)

\* what the loader or the caller did to a Holder, as the last call made
HolderCall(s, column_name, origin, outcome) ==
    Some([sim |-> s, column |-> column_name, origin |-> origin,
          requested |-> None, in_progress |-> {}, outcome |-> outcome,
          found |-> holder_by_name[s][DeclaringEntity(column_name)][column_name].state])

\* holder.set_input(values): the array is stored and the state is INPUT; an
\* array whose length is not member_count is an EntityLengthMismatchError
set_input(s, column_name, values) ==
    /\ stack[s] = <<>>
    /\ column_name \in Columns(tax_benefit_system)
    /\ LET entity == DeclaringEntity(column_name) IN
       IF LengthAgrees(entity, values)
           THEN /\ holder_by_name' = WithHolder(s, entity, column_name,
                        [state |-> "INPUT", values |-> values])
                /\ last_call' = HolderCall(s, column_name, "set_input", "INPUT")
                /\ UNCHANGED raised
           ELSE /\ raised' = [raised EXCEPT ![s] = @ \cup {"EntityLengthMismatchError"}]
                /\ last_call' = HolderCall(s, column_name, "set_input",
                                           "EntityLengthMismatchError")
                /\ UNCHANGED holder_by_name
    /\ step' = "set_input"
    /\ UNCHANGED <<entity_by_column_name, stack, result, invoked, to_computed,
                   compact_legislation, default_compact_legislation,
                   tax_benefit_system, instances>>
    /\ UNCHANGED <<table_vars, column_vars>>

\* the Holder of a column is explicitly cleared
clear_holder(s, column_name) ==
    /\ stack[s] = <<>>
    /\ column_name \in Columns(tax_benefit_system)
    /\ LET entity == DeclaringEntity(column_name) IN
       /\ holder_by_name[s][entity][column_name].state # "ABSENT"
       /\ holder_by_name' = Cleared(s, entity, column_name)
    /\ last_call' = HolderCall(s, column_name, "clear", "EMPTY")
    /\ step' = "clear_holder"
    /\ UNCHANGED <<entity_by_column_name, stack, result, invoked, to_computed,
                   compact_legislation, default_compact_legislation,
                   tax_benefit_system, instances, raised>>
    /\ UNCHANGED <<table_vars, column_vars>>

----------------------------------------------------------------------------
(* simulations.py, lines 51-652: the table-driven Simulation.  The table   *)
(* (TaxBenefitSystem) is modelled from the specification: one cache cell   *)
(* per prestation, EMPTY until calculated.                                 *)

Prestations == {"tax", "bonus"}

\* the legislation read from param_file, and the snapshots a caller may give
FileLegislation == [rate |-> 2]
ParamChoices == {None, Some([rate |-> 1])}
ParamDefaultChoices == {None, Some([rate |-> 3])}

\* the two tables a _preproc makes
ActualRef == 1
DefaultRef == 2

EmptyCell == [state |-> "EMPTY", values |-> <<>>, by |-> None]

\* a table that no reference denotes
NoTable == [param |-> None, default_param |-> None, inputs |-> None,
            cells |-> [p \in Prestations |-> EmptyCell]]

\* TaxBenefitSystem(prestation_by_name, param, defaultParam) and set_inputs
NewTable(param, default_param, inputs) ==
    [param |-> param, default_param |-> default_param, inputs |-> inputs,
     cells |-> [p \in Prestations |-> EmptyCell]]

\* table.disable(disabled_prestations): the named prestations count as
\* calculated and keep their default value
Disable(table, disabled) ==
    IF disabled = None THEN table
    ELSE [table EXCEPT !.cells = [p \in Prestations |->
            IF p \in Get(disabled)
                THEN [state |-> "DISABLED",
                      values |-> Filled(Len(Get(table.inputs)), ColumnDefault(p)),
                      by |-> None]
                ELSE @[p]]]

\* table.reset(): no prestation counts as calculated
Reset(table) == [table EXCEPT !.cells = [p \in Prestations |-> EmptyCell]]

\* table.calculate(): every prestation not yet calculated is evaluated with
\* the parameters of the table, tax before bonus, which requires it
Calculate(table) ==
    LET salary == Get(table.inputs)
        leg == Get(table.param)
        tax == IF table.cells["tax"].state = "EMPTY"
                   THEN [state |-> "COMPUTED",
                         values |-> compute_fn("tax", <<salary>>, leg),
                         by |-> table.param]
                   ELSE table.cells["tax"]
        bonus == IF table.cells["bonus"].state = "EMPTY"
                     THEN [state |-> "COMPUTED",
                           values |-> compute_fn("bonus", <<tax.values, salary>>, leg),
                           by |-> table.param]
                     ELSE table.cells["bonus"] IN
    [table EXCEPT !.cells = [p \in Prestations |-> IF p = "tax" THEN tax ELSE bonus]]

\* the data a calculate returns: the values of every prestation, with the
\* parameters each was computed by, and the parameters the request was for
DataOf(table, under) ==
    [under |-> under,
     values |-> [p \in Prestations |-> table.cells[p].values],
     by |-> [p \in Prestations |-> table.cells[p].by]]

\* _preproc with one table for both references
DefaultTableRefShared(reform) == ActualRef

\* _preproc, lines 189-194: the table output_table_default refers to
DefaultTableRef(reform) == IF reform THEN DefaultRef ELSE ActualRef

\* _preproc, line 185: the parameters output_table is made with
ActualTableParam(param, param_default) == param

\* _preproc with output_table_default made with P
DefaultTableParamActual(param, param_default) == param

\* _preproc, line 190: the parameters output_table_default is made with
DefaultTableParam(param, param_default) == param_default

\* _preproc, lines 182-197: the tables made over an input table, the
\* disabled set applied
PreprocTablesOf(inputs) ==
    LET actual == NewTable(ActualTableParam(P, P_default), P_default, inputs)
        default == NewTable(DefaultTableParam(P, P_default), P_default, inputs)
        ref == DefaultTableRef(reforme)
        made == [r \in {ActualRef, DefaultRef} |->
                    IF r = ActualRef THEN actual
                    ELSE IF ref = DefaultRef THEN default ELSE NoTable]
        once == [made EXCEPT ![ActualRef] = Disable(@, disabled_prestations)] IN
    [once EXCEPT ![ref] = Disable(@, disabled_prestations)]

\* _preproc on self.input_table
PreprocTables == PreprocTablesOf(input_table)

\* set_param without the deepcopy of line 143: the tree read from the file
\* is bound to both attributes
IsSameObjectWithoutCopy(param, param_default) ==
    \/ param = None /\ param_default = None
    \/ param # None /\ param = param_default

\* set_param, lines 142-150: whether P and P_default are bound to one object.
\* The tree read from the file is deep-copied for P_default; an object the
\* caller gives is bound as it is.  The caller's objects are told apart by
\* their content: the same content given twice is one object given twice.
IsSameObject(param, param_default) ==
    param # None /\ param = param_default

\* Simulation.set_param
set_param(param, param_default) ==
    /\ P_default' = IF param_default = None
                        THEN Some(FileLegislation) ELSE param_default
    /\ P' = IF param = None THEN Some(FileLegislation) ELSE param
    /\ same_object' = IsSameObject(param, param_default)
    /\ last_params' = Some([param |-> param, param_default |-> param_default])
    /\ failure' = ""
    /\ step' = "set_param"
    /\ UNCHANGED <<reforme, disabled_prestations, input_table, output_table,
                   output_table_default, tables, data, data_default,
                   chunks_count, alternative_scenario>>
    /\ UNCHANGED <<engine_state, column_vars>>

\* the rates a caller may write into a parameter tree
ChangedRates == {1, 3}

\* simulation.P.rate = rate: the caller changes the actual parameters in
\* place, as a reform is written after set_param; the change is made to the
\* object P is bound to, and is read through every attribute bound to it
change_param(rate) ==
    /\ P # None
    /\ P' = Some([Get(P) EXCEPT !.rate = rate])
    /\ P_default' = IF same_object THEN P' ELSE P_default
    /\ failure' = ""
    /\ step' = "change_param"
    /\ UNCHANGED <<reforme, disabled_prestations, input_table, output_table,
                   output_table_default, tables, data, data_default,
                   same_object, last_params,
                   chunks_count, alternative_scenario>>
    /\ UNCHANGED <<engine_state, column_vars>>

\* Simulation.disable_prestations
disable_prestations(disabled) ==
    /\ disabled_prestations' = disabled
    /\ failure' = ""
    /\ step' = "disable_prestations"
    /\ UNCHANGED <<reforme, P, P_default, input_table, output_table,
                   output_table_default, tables, data, data_default,
                   same_object, last_params,
                   chunks_count, alternative_scenario>>
    /\ UNCHANGED <<engine_state, column_vars>>

\* Simulation._preproc; P.datesim raises when no parameters are set
preproc ==
    /\ IF P = None
           THEN /\ failure' = "AttributeError"
                /\ UNCHANGED <<output_table, output_table_default, tables>>
           ELSE /\ failure' = ""
                /\ tables' = PreprocTables
                /\ output_table' = Some(ActualRef)
                /\ output_table_default' = Some(DefaultTableRef(reforme))
    /\ step' = "preproc"
    /\ UNCHANGED <<reforme, P, P_default, disabled_prestations, input_table,
                   data, data_default, same_object, last_params,
                   chunks_count, alternative_scenario>>
    /\ UNCHANGED <<engine_state, column_vars>>

\* a reset that leaves every prestation enabled
ResetOnly(table, disabled) == Reset(table)

\* _compute, lines 237-238: output_table_default.reset() and then
\* output_table_default.disable(self.disabled_prestations)
ResetAndDisable(table, disabled) == Disable(Reset(table), disabled)

\* _compute, lines 228-244, with P set: the tables, the references and the
\* data it leaves, over an input table
Computed(inputs) ==
    LET ref == DefaultTableRef(reforme)
        made == PreprocTablesOf(inputs)
        first == [made EXCEPT ![ActualRef] = Calculate(@)]
        again == [first EXCEPT ![ref] =
                    Calculate(ResetAndDisable(@, disabled_prestations))]
        final == IF reforme THEN again ELSE first IN
    [tables |-> final,
     output_table |-> Some(ActualRef),
     output_table_default |-> Some(ref),
     data |-> Some(DataOf(first[ActualRef], P)),
     data_default |-> IF reforme
                          THEN Some(DataOf(again[ref], P_default))
                          ELSE Some(DataOf(first[ActualRef], P))]

\* _compute, lines 210 and 244: the attributes assigned
Store(done) ==
    /\ tables' = done.tables
    /\ output_table' = done.output_table
    /\ output_table_default' = done.output_table_default
    /\ data' = done.data
    /\ data_default' = done.data_default

\* Simulation._compute
compute_tables ==
    /\ IF P = None
           THEN /\ failure' = "AttributeError"
                /\ UNCHANGED <<output_table, output_table_default, tables,
                               data, data_default>>
           ELSE /\ failure' = ""
                /\ Store(Computed(input_table))
    /\ step' = "compute_tables"
    /\ UNCHANGED <<reforme, P, P_default, disabled_prestations, input_table,
                   same_object, last_params,
                   chunks_count, alternative_scenario>>
    /\ UNCHANGED <<engine_state, column_vars>>

\* output_table.calculate() or output_table_default.calculate(), called on
\* the tables of the last _preproc
calculate(reference) ==
    /\ reference # None
    /\ tables' = [tables EXCEPT ![Get(reference)] = Calculate(@)]
    /\ failure' = ""
    /\ step' = "calculate"
    /\ UNCHANGED <<reforme, P, P_default, disabled_prestations, input_table,
                   output_table, output_table_default, data, data_default,
                   same_object, last_params,
                   chunks_count, alternative_scenario>>
    /\ UNCHANGED <<engine_state, column_vars>>

\* Simulation.clear
clear ==
    /\ output_table' = None
    /\ output_table_default' = None
    /\ failure' = ""
    /\ step' = "clear"
    /\ UNCHANGED <<reforme, P, P_default, disabled_prestations, input_table,
                   tables, data, data_default, same_object, last_params,
                   chunks_count, alternative_scenario>>
    /\ UNCHANGED <<engine_state, column_vars>>

\* the values of chunks_count a configuration may give
ChunksCounts == {1, 2, 3}

\* the input array load_data_from_survey reads from the survey file
SurveyData == <<1000, 0, 500>>

\* SurveySimulation.set_config, lines 569-573 and 587-588: chunks_count is
\* set from the keyword of that name, an integer
survey_set_config(count) ==
    /\ chunks_count' = count
    /\ failure' = ""
    /\ step' = "survey_set_config"
    /\ UNCHANGED <<reforme, P, P_default, disabled_prestations, input_table,
                   output_table, output_table_default, tables, data,
                   data_default, same_object, last_params, alternative_scenario>>
    /\ UNCHANGED <<engine_state, column_vars>>

\* SurveySimulation.compute, lines 638-651: the outputs are cleared, the
\* input table is loaded when there is none, and _compute is called when
\* chunks_count is 1
survey_compute ==
    LET loaded == IF input_table = None THEN Some(SurveyData) ELSE input_table IN
    /\ input_table' = loaded
    /\ IF chunks_count = 1 /\ P # None
           THEN /\ failure' = ""
                /\ Store(Computed(loaded))
           ELSE /\ failure' = IF chunks_count = 1 THEN "AttributeError" ELSE ""
                /\ output_table' = None
                /\ output_table_default' = None
                /\ UNCHANGED <<tables, data, data_default>>
    /\ step' = "survey_compute"
    /\ UNCHANGED <<reforme, P, P_default, disabled_prestations, same_object,
                   last_params, chunks_count, alternative_scenario>>
    /\ UNCHANGED <<engine_state, column_vars>>

\* the input arrays load_data_from_test_case reads from the scenario and
\* from the alternative scenario
ScenarioData == <<1000, 0, 500>>
AlternativeData == <<200, 300, 0>>

\* ScenarioSimulation.set_alternative_scenario
set_alternative_scenario(scenario) ==
    /\ alternative_scenario' = scenario
    /\ failure' = ""
    /\ step' = "set_alternative_scenario"
    /\ UNCHANGED <<reforme, P, P_default, disabled_prestations, input_table,
                   output_table, output_table_default, tables, data,
                   data_default, same_object, last_params, chunks_count>>
    /\ UNCHANGED <<engine_state, column_vars>>

\* data.difference(data_default): the values of data less those of
\* data_default, element by element, written into data
Difference(d, e) ==
    [d EXCEPT !.values = [p \in Prestations |->
        [i \in 1..Len(d.values[p]) |-> d.values[p][i] - e.values[p][i]]]]

\* a compute that refuses nothing
RefusesNever(reform, alter) == FALSE

\* ScenarioSimulation.compute, lines 459-461: reform mode with an
\* alternative scenario is refused
Refuses(reform, alter) == reform /\ alter

\* ScenarioSimulation.compute, lines 468-475: the table of the alternative
\* scenario is made and calculated; it is a new object that replaces
\* output_table, its data replace data, and output_table_default stays the
\* table of the scenario
WithAlternative(done) ==
    LET table == Calculate(Disable(NewTable(P, P_default, alternative_scenario),
                                   disabled_prestations)) IN
    [done EXCEPT
        !.tables = [r \in {ActualRef, DefaultRef} |->
            IF r = ActualRef THEN table
            ELSE done.tables[Get(done.output_table_default)]],
        !.output_table_default = Some(DefaultRef),
        !.data = Some(DataOf(table, P))]

\* ScenarioSimulation.compute, lines 477-478: the difference is written
\* into data; when data and data_default are one object (shared: _compute
\* without reform, line 242, and no alternative scenario) it is read
\* through both
WithDifference(done, shared) ==
    LET less == Some(Difference(Get(done.data), Get(done.data_default))) IN
    IF shared THEN [done EXCEPT !.data = less, !.data_default = less]
    ELSE [done EXCEPT !.data = less]

\* ScenarioSimulation.compute, lines 463-478, with P set and the call not
\* refused
ScenarioComputed(inputs, alter, difference) ==
    LET done == IF alter THEN WithAlternative(Computed(inputs))
                ELSE Computed(inputs) IN
    IF difference \/ reforme
        THEN WithDifference(done, ~(reforme \/ alter))
        ELSE done

\* ScenarioSimulation.compute, lines 453-480: the scenario is loaded into
\* the input table, _preproc makes the tables, and the call is refused or
\* the data are computed
scenario_compute(difference) ==
    LET loaded == Some(ScenarioData)
        alter == alternative_scenario # None IN
    /\ input_table' = loaded
    /\ IF P = None
           THEN /\ failure' = "AttributeError"
                /\ UNCHANGED <<output_table, output_table_default, tables,
                               data, data_default>>
       ELSE IF Refuses(reforme, alter)
           THEN /\ failure' = "Exception"
                /\ tables' = PreprocTablesOf(loaded)
                /\ output_table' = Some(ActualRef)
                /\ output_table_default' = Some(DefaultTableRef(reforme))
                /\ UNCHANGED <<data, data_default>>
       ELSE /\ failure' = ""
            /\ Store(ScenarioComputed(loaded, alter, difference))
    /\ step' = "scenario_compute"
    /\ UNCHANGED <<reforme, P, P_default, disabled_prestations, same_object,
                   last_params, chunks_count, alternative_scenario>>
    /\ UNCHANGED <<engine_state, column_vars>>

----------------------------------------------------------------------------
(* columns.py: the column descriptors and their json_to_python converters. *)
(* The converters are those of conv, which re-exports biryani1: a          *)
(* converter takes a value and returns a value and an error; a test lets   *)
(* None through; pipe stops at the first error.                            *)

\* a JSON or Python value: one record type for every kind of value.
\* A float is held in tenths (15 is 1.5), a date as yyyymmdd, a string as
\* its sequence of characters.
JsonNull == [type |-> "null", n |-> 0, s |-> <<>>, b |-> FALSE]
JsonBool(b) == [type |-> "bool", n |-> 0, s |-> <<>>, b |-> b]
JsonInt(n) == [type |-> "int", n |-> n, s |-> <<>>, b |-> FALSE]
JsonFloat(tenths) == [type |-> "float", n |-> tenths, s |-> <<>>, b |-> FALSE]
JsonStr(s) == [type |-> "str", n |-> 0, s |-> s, b |-> FALSE]
PyDate(year, month, day) ==
    [type |-> "date", n |-> year * 10000 + month * 100 + day, s |-> <<>>, b |-> FALSE]

\* what a converter returns: (value, None) or (value, error)
Ok(value) == [value |-> value, error |-> ""]
Err(value, error) == [value |-> value, error |-> error]

\* Python's isinstance over int, bool, float and basestring: a bool is an int
isinstance(value, classes) ==
    \/ value.type = "bool" /\ ("bool" \in classes \/ "int" \in classes)
    \/ value.type = "int" /\ "int" \in classes
    \/ value.type = "float" /\ "float" \in classes
    \/ value.type = "str" /\ "basestring" \in classes

\* the number a Python int or bool is in a comparison: True is 1
IntOf(value) == IF value.type = "bool" THEN (IF value.b THEN 1 ELSE 0) ELSE value.n

\* characters: the digits, and the letters with the lower-case letter
\* without diacritic that each is simplified to
DigitChars == <<"0", "1", "2", "3", "4", "5", "6", "7", "8", "9">>
UpperChars == <<"A", "B", "C", "D", "E", "F", "G", "H", "I", "J", "K", "L", "M",
                "N", "O", "P", "Q", "R", "S", "T", "U", "V", "W", "X", "Y", "Z",
                "É", "È", "Ç", "é", "è", "ç">>
LowerChars == <<"a", "b", "c", "d", "e", "f", "g", "h", "i", "j", "k", "l", "m",
                "n", "o", "p", "q", "r", "s", "t", "u", "v", "w", "x", "y", "z",
                "e", "e", "c", "e", "e", "c">>
Range(seq) == {seq[i] : i \in 1..Len(seq)}
IsDigit(c) == c \in Range(DigitChars)
DigitOf(c) == (CHOOSE i \in 1..Len(DigitChars) : DigitChars[i] = c) - 1

\* strings.slugify on one character: lower case without diacritics, and a
\* blank for what is neither a letter nor a digit
simplify_char(c) ==
    IF IsDigit(c) \/ (c \in Range(LowerChars) /\ c \notin Range(UpperChars)) THEN c
    ELSE IF c \in Range(UpperChars)
        THEN LowerChars[CHOOSE i \in 1..Len(UpperChars) : UpperChars[i] = c]
        ELSE " "

RECURSIVE JoinWords(_, _, _)
\* the words of the simplified characters joined by the separator
JoinWords(chars, slug, pending) ==
    IF chars = <<>> THEN slug
    ELSE LET c == simplify_char(Head(chars)) IN
         IF c = " " THEN JoinWords(Tail(chars), slug, slug # <<>>)
         ELSE JoinWords(Tail(chars),
                        (IF pending THEN Append(slug, "-") ELSE slug) \o <<c>>,
                        FALSE)

\* biryani1.strings.slugify
slugify(s) == JoinWords(s, <<>>, FALSE)

RECURSIVE Strip(_)
\* Python's strip of blanks
Strip(s) ==
    IF s # <<>> /\ Head(s) = " " THEN Strip(Tail(s))
    ELSE IF s # <<>> /\ s[Len(s)] = " " THEN Strip(SubSeq(s, 1, Len(s) - 1))
    ELSE s

IsDigits(s) == s # <<>> /\ \A i \in 1..Len(s) : IsDigit(s[i])

RECURSIVE NatOf(_)
\* the number a sequence of digits writes
NatOf(s) ==
    IF s = <<>> THEN 0
    ELSE NatOf(SubSeq(s, 1, Len(s) - 1)) * 10 + DigitOf(s[Len(s)])

\* Python's int(string): None when it raises ValueError
ParseInt(s) ==
    LET t == Strip(s)
        signed == t # <<>> /\ Head(t) \in {"-", "+"}
        digits == IF signed THEN Tail(t) ELSE t IN
    IF ~IsDigits(digits) THEN None
    ELSE Some(IF signed /\ Head(t) = "-" THEN 0 - NatOf(digits) ELSE NatOf(digits))

\* Python's float(string), in tenths (further decimals are dropped): None
\* when it raises ValueError
ParseFloat(s) ==
    LET t == Strip(s)
        signed == t # <<>> /\ Head(t) \in {"-", "+"}
        body == IF signed THEN Tail(t) ELSE t
        dots == {i \in 1..Len(body) : body[i] = "."}
        dot == IF dots = {} THEN Len(body) + 1 ELSE CHOOSE i \in dots : TRUE
        whole == SubSeq(body, 1, dot - 1)
        decimal == SubSeq(body, dot + 1, Len(body))
        tenths == NatOf(whole) * 10 + (IF decimal = <<>> THEN 0 ELSE DigitOf(decimal[1])) IN
    IF \/ Cardinality(dots) > 1
       \/ whole = <<>> /\ decimal = <<>>
       \/ whole # <<>> /\ ~IsDigits(whole)
       \/ decimal # <<>> /\ ~IsDigits(decimal)
        THEN None
    ELSE Some(IF signed /\ Head(t) = "-" THEN 0 - tenths ELSE tenths)

\* Python's int(float): truncation towards zero, of a float in tenths
Truncate(tenths) == IF tenths >= 0 THEN tenths \div 10 ELSE 0 - ((0 - tenths) \div 10)

\* A converter is modelled on what the converter before it in the pipe
\* returned: conv.pipe is the nesting of the converters, and a converter
\* returns an error it is given as it is.

\* a test that tests None as any other value
test_none_too(ok, error, converted) ==
    IF converted.error # "" \/ ok THEN converted ELSE Err(converted.value, error)

\* conv.test(function, error): None is not tested
test(ok, error, converted) ==
    IF converted.error # "" \/ converted.value = JsonNull \/ ok THEN converted
    ELSE Err(converted.value, error)

\* conv.test_isinstance(class_or_classes, error = None)
test_isinstance(class_or_classes, error, converted) ==
    test(isinstance(converted.value, class_or_classes),
         IF error # "" THEN error ELSE "Value is not an instance", converted)

\* conv.test_greater_or_equal(constant)
test_greater_or_equal(constant, converted) ==
    test(IntOf(converted.value) >= constant, "Value must be greater than or equal",
         converted)

\* conv.test_equals(constant)
test_equals(constant, converted) ==
    test(IntOf(converted.value) = constant, "Value must be equal", converted)

\* conv.test_in(values) on numbers
test_in(values, converted) ==
    test(IntOf(converted.value) \in values, "Value must belong", converted)

\* conv.test_in(index_by_slug) on a slug
test_in_slugs(index_by_slug, converted) ==
    test(converted.value.s \in DOMAIN index_by_slug, "Value must belong", converted)

\* conv.default(constant): the constant for None
conv_default(constant, converted) ==
    IF converted.error = "" /\ converted.value = JsonNull THEN Ok(constant)
    ELSE converted

\* conv.anything_to_bool: Python's bool of the value
anything_to_bool(converted) ==
    LET value == converted.value IN
    CASE converted.error # "" \/ value = JsonNull -> converted
      [] value.type = "bool" -> Ok(value)
      [] value.type = "str" -> Ok(JsonBool(value.s # <<>>))
      [] OTHER -> Ok(JsonBool(value.n # 0))

\* conv.anything_to_float: Python's float of the value
anything_to_float(converted) ==
    LET value == converted.value IN
    CASE converted.error # "" \/ value = JsonNull -> converted
      [] value.type = "bool" -> Ok(JsonFloat(IntOf(value) * 10))
      [] value.type = "int" -> Ok(JsonFloat(value.n * 10))
      [] value.type = "float" -> Ok(value)
      [] value.type = "str" ->
            IF ParseFloat(value.s) # None THEN Ok(JsonFloat(Get(ParseFloat(value.s))))
            ELSE Err(value, "Value must be a float")
      [] OTHER -> Err(value, "Value must be a float")

\* conv.anything_to_int: Python's int of the value, or of its float
anything_to_int(converted) ==
    LET value == converted.value IN
    CASE converted.error # "" \/ value = JsonNull -> converted
      [] value.type = "bool" -> Ok(JsonInt(IntOf(value)))
      [] value.type = "int" -> Ok(value)
      [] value.type = "float" -> Ok(JsonInt(Truncate(value.n)))
      [] value.type = "str" ->
            IF ParseInt(value.s) # None THEN Ok(JsonInt(Get(ParseInt(value.s))))
            ELSE IF ParseFloat(value.s) # None
                THEN Ok(JsonInt(Truncate(Get(ParseFloat(value.s)))))
                ELSE Err(value, "Value must be an integer")
      [] OTHER -> Err(value, "Value must be an integer")

\* conv.input_to_slug: the slug of a string, None for a blank one
input_to_slug(converted) ==
    IF converted.error # "" \/ converted.value = JsonNull THEN converted
    ELSE IF slugify(converted.value.s) = <<>> THEN Ok(JsonNull)
    ELSE Ok(JsonStr(slugify(converted.value.s)))

\* the days of a month of the proleptic Gregorian calendar
DaysIn(year, month) ==
    IF month = 2
        THEN (IF year % 4 = 0 /\ (year % 100 # 0 \/ year % 400 = 0) THEN 29 ELSE 28)
    ELSE IF month \in {4, 6, 9, 11} THEN 30 ELSE 31

\* conv.iso8601_input_to_date on a string without a time of day:
\* yyyy-mm-dd or yyyymmdd; None for a blank string
iso8601_input_to_date(converted) ==
    IF converted.error # "" \/ converted.value = JsonNull THEN converted
    ELSE LET t == Strip(converted.value.s)
             plain == IF Len(t) = 10 /\ t[5] = "-" /\ t[8] = "-"
                          THEN SubSeq(t, 1, 4) \o SubSeq(t, 6, 7) \o SubSeq(t, 9, 10)
                          ELSE t
             year == NatOf(SubSeq(plain, 1, 4))
             month == NatOf(SubSeq(plain, 5, 6))
             day == NatOf(SubSeq(plain, 7, 8)) IN
         IF t = <<>> THEN Ok(JsonNull)
         ELSE IF /\ Len(plain) = 8
                 /\ IsDigits(plain)
                 /\ year >= 1
                 /\ month \in 1..12
                 /\ day \in 1..DaysIn(year, month)
             THEN Ok(PyDate(year, month, day))
             ELSE Err(converted.value, "Value must be a date in ISO 8601 format")

\* conv.condition(test_converter, ok_converter, error_converter): what the
\* second returned when the first returned no error, else what the third
\* returned, each of the three on the same value
condition(tested, if_ok, if_error) == IF tested.error = "" THEN if_ok ELSE if_error

\* conv.first_match of two converters on the same value: what the first
\* returned when it is no error, else what the last returned
first_match(first, second) == IF first.error = "" THEN first ELSE second

\* conv.function(lambda slug: index_by_slug[slug]): None is not converted
index_of_slug(index_by_slug, converted) ==
    IF converted.error # "" \/ converted.value = JsonNull THEN converted
    ELSE Ok(JsonInt(index_by_slug[converted.value.s]))

\* the class attribute _default of each class of column
ClassDefaultValue(class) ==
    CASE class = "BoolCol" -> JsonBool(FALSE)
      [] class = "AgesCol" -> JsonInt(-9999)
      [] OTHER -> JsonInt(0)

\* Column.__init__ and EnumCol.__init__: the descriptor as constructed
ColumnInit(class, given_default, enum) ==
    [class |-> class,
     _default |-> IF given_default # None
                     /\ IntOf(Get(given_default)) # IntOf(ClassDefaultValue(class))
                      THEN Get(given_default)
                      ELSE ClassDefaultValue(class),
     enum |-> IF class = "EnumCol" THEN enum ELSE None,
     index_by_slug |-> None,
     entity |-> "ind",
     freq |-> None]

\* an Enum's _vars: label by index
single == <<"s", "i", "n", "g", "l", "e">>
married == <<"m", "a", "r", "r", "i", "e", "d">>
Marie == <<"M", "a", "r", "i", "é">>
Veuf == <<"V", "e", "u", "f">>
Statut == (0 :> single) @@ (1 :> married)
Famille == (1 :> Marie) @@ (2 :> Veuf)
\* two labels of one slug
Etat == (0 :> Marie) @@ (1 :> <<"m", "a", "r", "i", "e">>)

\* an index by the labels as they are written
BuildIndexByName(vars_) ==
    [name \in {vars_[index] : index \in DOMAIN vars_} |->
        CHOOSE index \in DOMAIN vars_ : vars_[index] = name]

\* the index EnumCol.json_to_python builds, lines 220-224: of the labels
\* with one slug the last in the order of the indexes stays
BuildIndexBySlug(vars_) ==
    [slug \in {slugify(vars_[index]) : index \in DOMAIN vars_} |->
        CHOOSE index \in DOMAIN vars_ :
            /\ slugify(vars_[index]) = slug
            /\ \A other \in DOMAIN vars_ :
                  slugify(vars_[other]) = slug => other <= index]

\* the index of a descriptor, built on the first use
IndexBySlug(col) ==
    IF col.index_by_slug = None THEN BuildIndexBySlug(Get(col.enum))
    ELSE Get(col.index_by_slug)

\* a BoolCol that accepts 0, 1 and the booleans only
BoolCol_json_to_python_strict(value) ==
    anything_to_bool(test_in({0, 1}, test_isinstance({"int"}, "bool", Ok(value))))

\* BoolCol.json_to_python
BoolCol_json_to_python(value) ==
    anything_to_bool(test_isinstance({"int"}, "bool", Ok(value)))

\* DateCol.json_to_python
DateCol_json_to_python(value) ==
    iso8601_input_to_date(test_isinstance({"basestring"}, "", Ok(value)))

\* FloatCol.json_to_python
FloatCol_json_to_python(value) ==
    anything_to_float(test_isinstance({"float"}, "int", Ok(value)))

\* IntCol.json_to_python
IntCol_json_to_python(value) == test_isinstance({"int"}, "", Ok(value))

\* an AgesCol without the value for an unknown age
AgesCol_json_to_python_no_sentinel(value) ==
    test_greater_or_equal(0, test_isinstance({"int"}, "", Ok(value)))

\* AgesCol.json_to_python
AgesCol_json_to_python(value) ==
    LET checked == IntCol_json_to_python(value) IN
    first_match(test_greater_or_equal(0, checked), test_equals(-9999, checked))

\* a default that is always the lowest index
EnumDefaultLowest(col) ==
    JsonInt(CHOOSE index \in DOMAIN Get(col.enum) :
               \A other \in DOMAIN Get(col.enum) : index <= other)

\* EnumCol.json_to_python, lines 225-246: the default of the last converter
EnumDefault(col) ==
    IF IntOf(col._default) \in DOMAIN Get(col.enum) THEN col._default
    ELSE JsonInt(CHOOSE index \in DOMAIN Get(col.enum) :
                    \A other \in DOMAIN Get(col.enum) : index <= other)

\* EnumCol.json_to_python
EnumCol_json_to_python(col, value) ==
    LET checked == test_isinstance({"basestring", "int"}, "", Ok(value)) IN
    IF col.enum = None
        THEN conv_default(col._default, anything_to_int(checked))
    ELSE conv_default(EnumDefault(col),
            condition(anything_to_int(checked),
                      test_in(DOMAIN Get(col.enum), anything_to_int(checked)),
                      index_of_slug(IndexBySlug(col),
                          test_in_slugs(IndexBySlug(col), input_to_slug(checked)))))

\* column.json_to_python(value) for the class of the column
ColumnJsonToPython(col, value) ==
    CASE col.class = "BoolCol" -> BoolCol_json_to_python(value)
      [] col.class = "DateCol" -> DateCol_json_to_python(value)
      [] col.class = "FloatCol" -> FloatCol_json_to_python(value)
      [] col.class = "IntCol" -> IntCol_json_to_python(value)
      [] col.class = "AgesCol" -> AgesCol_json_to_python(value)
      [] OTHER -> EnumCol_json_to_python(col, value)

\* the descriptors a country package declares
ColumnChoices ==
    {ColumnInit(class, None, None) :
        class \in {"BoolCol", "DateCol", "FloatCol", "IntCol", "AgesCol", "EnumCol"}}
    \cup {ColumnInit("EnumCol", given_default, Some(Statut)) :
            given_default \in {None, Some(JsonInt(1)), Some(JsonInt(5))}}
    \cup {ColumnInit("EnumCol", None, Some(Famille))}

\* the values a JSON document may give
JsonStrings ==
    {<<"M", "a", "r", "r", "i", "e", "d">>, married,
     <<"M", "A", "R", "R", "I", "E", "D">>, single,
     <<" ", "S", "i", "n", "g", "l", "e", " ">>,
     <<"w", "i", "d", "o", "w", "e", "d">>,
     <<"m", "a", "r", "i", "e">>, <<"M", "A", "R", "I", "É">>,
     <<"1">>, <<"7">>, <<"1", ".", "5">>, <<"-", "1">>, <<>>, <<" ">>,
     <<"2", "0", "1", "2", "-", "0", "2", "-", "2", "9">>,
     <<"2", "0", "1", "4", "-", "0", "2", "-", "2", "9">>,
     <<"2", "0", "1", "4", "0", "1", "3", "1">>}
JsonInts == {-9999, -2, -1, 0, 1, 2, 7}
JsonFloats == {-15, 0, 15, 20}
JsonValues ==
    {JsonNull} \cup {JsonBool(b) : b \in BOOLEAN} \cup {JsonInt(n) : n \in JsonInts}
    \cup {JsonFloat(tenths) : tenths \in JsonFloats} \cup {JsonStr(s) : s \in JsonStrings}

\* nothing converted yet
NoPython == Ok(JsonNull)

\* a descriptor that keeps no index
CachedIndexNever(col) == None

\* EnumCol.json_to_python, lines 219-224: the index of an EnumCol with an
\* enum is built when there is none and kept
CachedIndex(col) ==
    IF col.class = "EnumCol" /\ col.enum # None /\ col.index_by_slug = None
        THEN Some(BuildIndexBySlug(Get(col.enum)))
        ELSE col.index_by_slug

\* a call of column.json_to_python(value): an EnumCol with an enum keeps the
\* index it builds on the first call
json_to_python(value) ==
    /\ json_value' = value
    /\ python_value' = ColumnJsonToPython(column, value)
    /\ column' = [column EXCEPT !.index_by_slug = CachedIndex(column)]
    /\ step' = "json_to_python"
    /\ UNCHANGED exported
    /\ UNCHANGED <<engine_state, table_vars>>

\* the class attribute json_type of each class of column
json_type(class) ==
    CASE class = "BoolCol" -> "Boolean"
      [] class = "DateCol" -> "Date"
      [] class = "FloatCol" -> "Float"
      [] class = "EnumCol" -> "Enumeration"
      [] OTHER -> "Integer"

\* the class attribute val_type of each class of column
val_type(class) == IF class = "DateCol" THEN Some("date") ELSE None

\* a record with one more key when the value is there
WithKey(record, key, value) ==
    IF value = None THEN record ELSE record @@ (key :> Get(value))

\* Column.to_json, lines 83-110: the keys of the attributes that are set
\* (cerfa_field, end, label, name and start are not set by ColumnInit);
\* reading self.freq raises when the descriptor has no such attribute
Column_to_json(col) ==
    IF col.freq = None THEN [record |-> None, error |-> "AttributeError"]
    ELSE [record |-> Some(
            WithKey(
              WithKey(("@type" :> json_type(col.class))
                        @@ ("default" :> col._default)
                        @@ ("entity" :> col.entity),
                      "freq", IF Get(col.freq) # "year" THEN col.freq ELSE None),
              "val_type", val_type(col.class))),
          error |-> ""]

\* a labels table read from the index of the slugs
LabelsOfIndex(col) ==
    IF col.index_by_slug = None THEN Get(col.enum)
    ELSE [index \in DOMAIN Get(col.enum) |->
            CHOOSE slug \in DOMAIN Get(col.index_by_slug) :
                slug = slugify(Get(col.enum)[index])]

\* EnumCol.to_json, line 251: the label of each index of the enum
Labels(col) == Get(col.enum)

\* EnumCol.to_json, lines 248-255
EnumCol_to_json(col) ==
    LET self_json == Column_to_json(col) IN
    IF self_json.error # "" \/ col.enum = None THEN self_json
    ELSE [self_json EXCEPT !.record = Some(Get(@) @@ ("labels" :> Labels(col)))]

\* column.to_json() of a descriptor of any class
ColumnToJson(col) ==
    IF col.class = "EnumCol" THEN EnumCol_to_json(col) ELSE Column_to_json(col)

\* a call of column.to_json(): the descriptor is read, a new record is
\* returned; the model keeps the last two records returned
to_json ==
    /\ exported' = IF Len(exported) < 2
                       THEN Append(exported, ColumnToJson(column))
                       ELSE <<exported[2], ColumnToJson(column)>>
    /\ step' = "to_json"
    /\ UNCHANGED <<column, json_value, python_value>>
    /\ UNCHANGED <<engine_state, table_vars>>

\* a descriptor as constructed, nothing converted
InitColumn(col) ==
    /\ column = col
    /\ json_value = JsonNull
    /\ python_value = NoPython
    /\ exported = <<>>

----------------------------------------------------------------------------
(* Initial state: the Simulations are constructed and the data loader has  *)
(* populated the input Holders                                             *)

Base3 == <<1000, 0, 500>>
Alt3 == <<200, 300, 0>>
Cyclic(base, n) == [i \in 1..n |-> base[((i - 1) % Len(base)) + 1]]

\* the arrays a loader may supply for each input column (None: no input)
InputChoices(tbs, column_name) ==
    CASE column_name \notin Columns(tbs) -> {None}
      [] tbs = "fiscal" /\ column_name = "salary" ->
            {None, Some(Cyclic(Base3, MemberCount)), Some(Cyclic(Alt3, MemberCount))}
      [] tbs = "flat" /\ column_name = "salary" ->
            {Some(Cyclic(Base3, MemberCount)), Some(Cyclic(Alt3, MemberCount))}
      [] tbs = "fiscal" /\ column_name = "tax" -> {None, Some(Filled(MemberCount, 7))}
      [] tbs = "cyclic" /\ column_name = "C" -> {None, Some(Filled(MemberCount, 5))}
      [] tbs = "faulty" /\ column_name = "salary" -> {Some(Cyclic(Base3, MemberCount))}
      [] tbs = "faulty" /\ column_name = "parts" -> {None, Some(Filled(MemberCount, 2))}
      [] OTHER -> {None}

\* the Holders of one Simulation once the loader has stored the input arrays
LoadedHolders(tbs, input) ==
    [e \in EntityKinds |-> [c \in AllNames |->
        IF c \notin AllColumns THEN NoHolder ELSE
        IF c \in ColumnNames(tbs, e) /\ input[c] # None
            THEN [state |-> "INPUT", values |-> Get(input[c])]
            ELSE NoHolder]]

NoResult == Outcome("none", [column |-> "", origin |-> ""], "", {}, <<>>)

\* the Simulations in sims are constructed over the registry tbs and the
\* loader has stored the same input arrays in each
InitEngine(tbs, sims) ==
    /\ tax_benefit_system = tbs
    /\ instances = sims
    /\ entity_by_column_name = [s \in Simulations |-> None]
    /\ stack = [s \in Simulations |-> <<>>]
    /\ result = [s \in Simulations |-> NoResult]
    /\ invoked = [s \in Simulations |-> [c \in AllColumns |-> 0]]
    /\ to_computed = [s \in Simulations |-> [c \in AllColumns |-> 0]]
    /\ last_call = None
    /\ step = "init"
    /\ raised = [s \in Simulations |-> {}]
    /\ compact_legislation =
            [s \in Simulations |-> InitCompactLegislation(GivenLegislation(s))]
    /\ default_compact_legislation =
            [s \in Simulations |-> InitDefaultCompactLegislation(GivenLegislation(s))]
    /\ \E input \in [Columns(tbs) -> UNION {InputChoices(tbs, c) : c \in Columns(tbs)}] :
          /\ \A c \in Columns(tbs) : input[c] \in InputChoices(tbs, c)
          /\ holder_by_name = [s \in Simulations |->
                LoadedHolders(tbs, [c \in AllColumns |->
                    IF c \in Columns(tbs) THEN input[c] ELSE None])]

\* the table-driven Simulation as constructed: the class attributes
InitTables(reform, inputs) ==
    /\ reforme = reform
    /\ P = None
    /\ P_default = None
    /\ disabled_prestations = None
    /\ input_table = inputs
    /\ output_table = None
    /\ output_table_default = None
    /\ tables = [r \in {ActualRef, DefaultRef} |-> NoTable]
    /\ data = None
    /\ data_default = None
    /\ failure = ""
    /\ same_object = FALSE
    /\ last_params = None
    /\ chunks_count = 1
    /\ alternative_scenario = None

\* one Simulation over a registry with shared inputs or with a cycle
Init ==
    /\ \E tbs \in {"fiscal", "cyclic"} : InitEngine(tbs, {"actual"})
    /\ InitTables(FALSE, None)
    /\ InitColumn(ColumnInit("IntCol", None, None))

\* two Simulations over the registry of the scenario: the reform and its baseline
InitDual ==
    /\ InitEngine("flat", Simulations)
    /\ InitTables(FALSE, None)
    /\ InitColumn(ColumnInit("IntCol", None, None))

\* a table-driven Simulation, configured for a reform or not, its input
\* table loaded
InitReform ==
    /\ InitEngine("flat", {})
    /\ \E reform \in BOOLEAN :
          InitTables(reform, Some(holder_by_name["actual"]["ind"]["salary"].values))
    /\ InitColumn(ColumnInit("IntCol", None, None))

Next ==
    \/ \E s \in instances : set_entities(s)
    \/ \E s \in instances, c \in RequestNames(tax_benefit_system) : compute(s, c)
    \/ \E s \in instances, c \in RequestNames(tax_benefit_system) :
            compute_in_flight(s, c)
    \/ \E s \in instances : request_input(s)
    \/ \E s \in instances : invoke_formula(s)

NextReform ==
    \/ \E param \in ParamChoices, param_default \in ParamDefaultChoices :
            set_param(param, param_default)
    \/ \E disabled \in {None, Some({"bonus"})} : disable_prestations(disabled)
    \/ preproc
    \/ compute_tables
    \/ calculate(output_table)
    \/ calculate(output_table_default)
    \/ clear

Spec == Init /\ [][Next]_vars

SpecDual == InitDual /\ [][Next]_vars

SpecReform == InitReform /\ [][NextReform]_vars

\* one Simulation over the registry with the formula that raises
InitFaulty ==
    /\ InitEngine("faulty", {"actual"})
    /\ InitTables(FALSE, None)
    /\ InitColumn(ColumnInit("IntCol", None, None))

SpecFaulty == InitFaulty /\ [][Next]_vars

\* the arrays a loader may give to set_input: of the length of the entity
\* or one short
InputArrays == {Filled(MemberCount, 7), Filled(MemberCount - 1, 7)}

\* one Simulation over the registry of the scenario, its Holders loaded,
\* set and cleared between the compute requests
InitLifecycle ==
    /\ InitEngine("flat", {"actual"})
    /\ InitTables(FALSE, None)
    /\ InitColumn(ColumnInit("IntCol", None, None))

NextLifecycle ==
    \/ \E s \in instances : set_entities(s)
    \/ \E s \in instances, c \in Columns(tax_benefit_system) : compute(s, c)
    \/ \E s \in instances : request_input(s)
    \/ \E s \in instances : invoke_formula(s)
    \/ \E s \in instances, c \in Columns(tax_benefit_system), values \in InputArrays :
            set_input(s, c, values)
    \/ \E s \in instances, c \in Columns(tax_benefit_system) : clear_holder(s, c)

SpecLifecycle == InitLifecycle /\ [][NextLifecycle]_vars

\* a descriptor of a country package converting the values of a document
InitColumns ==
    /\ InitEngine("flat", {})
    /\ InitTables(FALSE, None)
    /\ \E col \in ColumnChoices : InitColumn(col)

NextColumns == \E value \in JsonValues : json_to_python(value)

SpecColumns == InitColumns /\ [][NextColumns]_vars

\* the attribute freq as a country package sets it on a descriptor, None
\* when it sets none
FreqChoices == {None, Some("year"), Some("month")}

\* a descriptor of a country package, converting values and exported
InitExport ==
    /\ InitEngine("flat", {})
    /\ InitTables(FALSE, None)
    /\ \E col \in ColumnChoices \cup {ColumnInit("EnumCol", None, Some(Etat))},
          freq \in FreqChoices :
          InitColumn([col EXCEPT !.freq = freq])

NextExport ==
    \/ \E value \in JsonValues : json_to_python(value)
    \/ to_json

SpecExport == InitExport /\ [][NextExport]_vars

\* a SurveySimulation as constructed: no input table yet
InitSurvey ==
    /\ InitEngine("flat", {})
    /\ \E reform \in BOOLEAN : InitTables(reform, None)
    /\ InitColumn(ColumnInit("IntCol", None, None))

NextSurvey ==
    \/ \E count \in ChunksCounts : survey_set_config(count)
    \/ \E param \in ParamChoices, param_default \in ParamDefaultChoices :
            set_param(param, param_default)
    \/ \E disabled \in {None, Some({"bonus"})} : disable_prestations(disabled)
    \/ survey_compute
    \/ clear

SpecSurvey == InitSurvey /\ [][NextSurvey]_vars

\* a ScenarioSimulation once set_config has made its input table, empty
\* until compute loads the scenario
InitScenario ==
    /\ InitEngine("flat", {})
    /\ \E reform \in BOOLEAN : InitTables(reform, Some(<<>>))
    /\ InitColumn(ColumnInit("IntCol", None, None))

NextScenario ==
    \/ \E param \in ParamChoices, param_default \in ParamDefaultChoices :
            set_param(param, param_default)
    \/ \E disabled \in {None, Some({"bonus"})} : disable_prestations(disabled)
    \/ \E scenario \in {None, Some(AlternativeData)} :
            set_alternative_scenario(scenario)
    \/ \E difference \in BOOLEAN : scenario_compute(difference)

SpecScenario == InitScenario /\ [][NextScenario]_vars

\* one entity-driven Simulation and one table-driven Simulation, whose
\* parameters are set, changed in place by the caller and computed with
InitParams ==
    /\ InitEngine("flat", {"actual"})
    /\ \E reform \in BOOLEAN :
          InitTables(reform, Some(holder_by_name["actual"]["ind"]["salary"].values))
    /\ InitColumn(ColumnInit("IntCol", None, None))

NextParams ==
    \/ \E s \in instances : set_entities(s)
    \/ \E s \in instances, c \in RequestNames(tax_benefit_system) : compute(s, c)
    \/ \E s \in instances : request_input(s)
    \/ \E s \in instances : invoke_formula(s)
    \/ \E param \in ParamChoices, param_default \in ParamDefaultChoices \cup ParamChoices :
            set_param(param, param_default)
    \/ \E rate \in ChangedRates : change_param(rate)
    \/ compute_tables

SpecParams == InitParams /\ [][NextParams]_vars

----------------------------------------------------------------------------
(* State functions used by the properties *)

\* the entity that declares a column in the registry in use
OwnerOf(column_name) ==
    CHOOSE entity \in EntityKinds :
        column_name \in ColumnNames(tax_benefit_system, entity)

\* the Holder of a column in the entity that declares it
HolderOf(s, column_name) == holder_by_name[s][OwnerOf(column_name)][column_name]

RegisteredColumns == Columns(tax_benefit_system)

\* the last step was a call of Simulation.compute
CallSteps == {"compute", "compute_in_flight", "request_input"}

\* the last call of Simulation.compute, when one was made
TheCall == Get(last_call)

\* the values the last call returned to its caller, when it returned at once
ReturnedAtOnce(s) ==
    IF TheCall.in_progress = {}
        THEN result[s].values
        ELSE LET top == stack[s][Len(stack[s])] IN top.args[Len(top.args)]

----------------------------------------------------------------------------
(* C1 *)

\* no formula is invoked twice
InvokedAtMostOnce ==
    \A s \in Simulations, c \in AllColumns : invoked[s][c] <= 1

\* a step leaves a COMPUTED Holder and its invocation count as they are
ComputedIsKept ==
    \A s \in Simulations, c \in RegisteredColumns :
        HolderOf(s, c).state = "COMPUTED" =>
            /\ HolderOf(s, c)' = HolderOf(s, c)
            /\ invoked'[s][c] = invoked[s][c]

\* a call that finds a COMPUTED Holder returns its values, invokes no formula
\* and changes no Holder
ComputedIsReturned ==
    (step' \in CallSteps /\ TheCall'.found = "COMPUTED") =>
        /\ invoked' = invoked
        /\ holder_by_name' = holder_by_name
        /\ ReturnedAtOnce(TheCall.sim)' = HolderOf(TheCall.sim, TheCall.column)'.values

\* C1: over any sequence of compute requests on a Simulation, each formula
\* is invoked at most once, also when several formulas of one evaluation
\* require the same column, and a request for a column whose Holder is
\* COMPUTED returns the stored values without invoking a formula.
C1_Memoization ==
    /\ []InvokedAtMostOnce
    /\ [][ComputedIsKept /\ ComputedIsReturned]_vars

\* a formula in evaluation requested an input that an earlier formula of the
\* same evaluation had computed: it got the stored values, one invocation
C1_Witness ==
    /\ step = "request_input"
    /\ TheCall.found = "COMPUTED"
    /\ TheCall.column = "tax"
    /\ TheCall.in_progress = {"net", "bonus"}
    /\ invoked[TheCall.sim]["tax"] = 1

----------------------------------------------------------------------------
(* C2 *)

\* the formula of a column that holds input data has never been invoked
InputNotInvoked ==
    \A s \in Simulations, c \in RegisteredColumns :
        HolderOf(s, c).state = "INPUT" => invoked[s][c] = 0

\* a step leaves an INPUT Holder and its invocation count as they are
InputIsKept ==
    \A s \in Simulations, c \in RegisteredColumns :
        HolderOf(s, c).state = "INPUT" =>
            /\ HolderOf(s, c)' = HolderOf(s, c)
            /\ invoked'[s][c] = invoked[s][c]

\* C2: no sequence of compute requests, direct or as a required input of
\* another column, invokes the formula of a column whose Holder is INPUT or
\* changes its values, also when the column has a formula.
C2_InputShielded ==
    /\ []InputNotInvoked
    /\ [][InputIsKept]_vars

\* tax has a formula and holds input data; net, which requires tax, has
\* been computed and tax has been requested directly
C2_Witness ==
    /\ tax_benefit_system = "fiscal"
    /\ HasFormula("tax")
    /\ HolderOf("actual", "tax").state = "INPUT"
    /\ HolderOf("actual", "net").state = "COMPUTED"
    /\ step = "compute"
    /\ TheCall.column = "tax"
    /\ result["actual"].kind = "value"
    /\ result["actual"].values = HolderOf("actual", "tax").values

----------------------------------------------------------------------------
(* C3 *)

CycleColumns == {"A", "B", "C"}

\* an external request finished with entities attached (a TypeError is the
\* outcome of a request made before set_entities)
Finished(s) ==
    /\ entity_by_column_name[s] # None
    /\ result[s].origin = "external"
    /\ result[s].kind \notin {"none", "pending", "TypeError"}

\* C3: with the cycle A -> B -> C -> A and no value held by A, B or C, an
\* external compute request for A, B or C fails with the cyclic dependency
\* error, which names A, B and C.
C3_CycleRaises ==
    \A s \in instances :
        ( /\ tax_benefit_system = "cyclic"
          /\ \A c \in CycleColumns : HolderOf(s, c).state \in {"ABSENT", "EMPTY"}
          /\ Finished(s)
          /\ result[s].column \in CycleColumns )
        => /\ result[s].kind = "CyclicDependencyError"
           /\ result[s].names = CycleColumns

\* the request for B came back to B through C and A
C3_Witness ==
    /\ tax_benefit_system = "cyclic"
    /\ Finished("actual")
    /\ result["actual"].column = "B"
    /\ result["actual"].kind = "CyclicDependencyError"
    /\ result["actual"].at = "B"
    /\ step = "request_input"
    /\ TheCall.in_progress = CycleColumns

----------------------------------------------------------------------------
(* C4 *)

\* the step is a call of Simulation.compute with column_name in the set
CallInFlight ==
    /\ step' \in CallSteps
    /\ TheCall'.requested # None
    /\ TheCall'.column \in Get(TheCall'.requested)

\* C4: a compute call whose column_name is in requested_columns fails at
\* once with the cyclic dependency error naming the set: no entity is looked
\* up or called, no formula is invoked, no further call is made, and every
\* Holder is left as it was.
C4_CycleCheckFirst ==
    [][CallInFlight =>
        LET s == TheCall'.sim IN
        /\ TheCall'.outcome = "CyclicDependencyError"
        /\ result'[s].kind = "CyclicDependencyError"
        /\ result'[s].names = Get(TheCall'.requested)
        /\ stack'[s] = <<>>
        /\ holder_by_name' = holder_by_name
        /\ invoked' = invoked
        /\ to_computed' = to_computed]_vars

\* a call for a name that no entity declares, with that name in the set,
\* on a Simulation with entities: the cycle is reported, not the lookup
C4_Witness ==
    /\ step = "compute_in_flight"
    /\ TheCall.column = "ghost"
    /\ entity_by_column_name[TheCall.sim] # None
    /\ result[TheCall.sim].kind = "CyclicDependencyError"
    /\ "CyclicDependencyError" \in raised[TheCall.sim]

----------------------------------------------------------------------------
(* C5 *)

\* the set of each formula in evaluation is the names of the frames below it
FramesCarryTheStack ==
    \A s \in Simulations : \A k \in 1..Len(stack[s]) :
        stack[s][k].requested = {stack[s][j].name : j \in 1..(k - 1)}

\* the set of each call is the names in evaluation when it was made
CallsCarryTheStack ==
    (last_call # None /\ TheCall.origin # "explicit") =>
        /\ TheCall.origin = "external" =>
                (TheCall.requested = None /\ TheCall.in_progress = {})
        /\ TheCall.origin = "entity" =>
                (TheCall.requested # None
                    /\ Get(TheCall.requested) = TheCall.in_progress)

\* C5: at every compute call of an evaluation requested_columns is the set
\* of the names in evaluation on the call stack, empty at the external
\* entry; a name leaves it when its evaluation returns, so a request in a
\* registry without cycle, where formulas share required inputs, never ends
\* with the cyclic dependency error.
C5_RequestedIsTheStack ==
    /\ FramesCarryTheStack
    /\ CallsCarryTheStack
    /\ \A s \in instances :
          (tax_benefit_system # "cyclic" /\ result[s].origin = "external")
              => result[s].kind \notin {"CyclicDependencyError", "RecursionError"}

\* net is computed: it required tax and then bonus, and bonus, evaluated for
\* net, required tax and salary in its turn
C5_Witness ==
    /\ tax_benefit_system = "fiscal"
    /\ step = "invoke_formula"
    /\ result["actual"].kind = "value"
    /\ result["actual"].column = "net"
    /\ invoked["actual"]["tax"] = 1
    /\ invoked["actual"]["bonus"] = 1
    /\ TheCall.column = "salary"
    /\ Get(TheCall.requested) = {"net", "bonus"}

----------------------------------------------------------------------------
(* C6 *)

\* the step is an external request for a name that no entity declares, on a
\* Simulation with entities
UnknownRequested ==
    /\ step' = "compute"
    /\ TheCall'.column \notin RegisteredColumns
    /\ entity_by_column_name[TheCall'.sim] # None

\* the request fails with the unknown variable error and changes no Holder
UnknownFails ==
    UnknownRequested =>
        \A s \in Simulations : s = TheCall'.sim =>
            /\ result'[s].kind = "UnknownVariableError"
            /\ result'[s].at = TheCall'.column
            /\ holder_by_name' = holder_by_name
            /\ entity_by_column_name' = entity_by_column_name
            /\ stack'[s] = <<>>
            /\ invoked' = invoked
            /\ \A c \in AllNames :
                  get_holder_by_name(s, c, None)' = get_holder_by_name(s, c, None)

\* after such a failure a finished request for a registered column of a
\* registry without cycle has returned the values of its Holder
StillComputes ==
    \A s \in instances :
        ( /\ "UnknownVariableError" \in raised[s]
          /\ tax_benefit_system # "cyclic"
          /\ Finished(s)
          /\ result[s].column \in RegisteredColumns )
        => /\ result[s].kind = "value"
           /\ get_holder_by_name(s, result[s].column, None).kind = "holder"
           /\ result[s].values = HolderOf(s, result[s].column).values
           /\ Len(result[s].values) = member_count(OwnerOf(result[s].column))

\* C6: a compute request for a name that no Entity owns fails with the
\* unknown variable error (Python's KeyError) and changes no Holder, and a
\* later request for a registered column on the same Simulation still
\* returns its value.
C6_UnknownVariable ==
    /\ [][UnknownFails]_vars
    /\ []StillComputes

\* the unknown variable error was raised, and then tax was computed
C6_Witness ==
    /\ tax_benefit_system = "fiscal"
    /\ "UnknownVariableError" \in raised["actual"]
    /\ Finished("actual")
    /\ result["actual"].column = "tax"
    /\ result["actual"].kind = "value"
    /\ step = "invoke_formula"
    /\ HolderOf("actual", "tax").state = "COMPUTED"

----------------------------------------------------------------------------
(* C7 *)

\* the rate of the snapshot a Simulation was constructed for, in tenths
RateOf(s) ==
    IF GivenLegislation(s) # None
        THEN Get(GivenLegislation(s)).rate
        ELSE BaselineLegislation.rate

\* salary as the formula of tax receives it: the input data, or the default
SalaryOf(s) ==
    IF HolderOf(s, "salary").state = "INPUT"
        THEN HolderOf(s, "salary").values
        ELSE [i \in 1..MemberCount |-> 0]

\* C7: a compute request for tax, whose Holder is EMPTY and which has a
\* formula, returns salary * rate element by element, with the rate of the
\* Simulation's legislation ([100, 0, 50] for [1000, 0, 500] and 0.1), and
\* the Holder of any column goes from EMPTY to COMPUTED at most once, and
\* once exactly when it is COMPUTED.
C7_FormulaResult ==
    \A s \in instances :
        /\ \A c \in RegisteredColumns :
              /\ to_computed[s][c] <= 1
              /\ HolderOf(s, c).state = "COMPUTED" <=> to_computed[s][c] = 1
        /\ ( /\ "tax" \in RegisteredColumns
             /\ Finished(s)
             /\ result[s].column = "tax"
             /\ HolderOf(s, "tax").state # "INPUT" )
           => /\ result[s].kind = "value"
              /\ HolderOf(s, "tax").state = "COMPUTED"
              /\ result[s].values = HolderOf(s, "tax").values
              /\ Len(result[s].values) = MemberCount
              /\ \A i \in 1..MemberCount :
                    result[s].values[i] = (SalaryOf(s)[i] * RateOf(s)) \div 10
              /\ (SalaryOf(s) = <<1000, 0, 500>> /\ s = "actual")
                    => result[s].values = <<100, 0, 50>>

\* the scenario of the specification: tax computed from salary [1000, 0, 500]
C7_Witness ==
    /\ tax_benefit_system = "fiscal"
    /\ HolderOf("actual", "salary").values = <<1000, 0, 500>>
    /\ Finished("actual")
    /\ result["actual"].column = "tax"
    /\ result["actual"].values = <<100, 0, 50>>
    /\ HolderOf("actual", "tax").state = "COMPUTED"
    /\ to_computed["actual"]["tax"] = 1

----------------------------------------------------------------------------
(* C8 *)

\* the default_value of the descriptors that have no formula
DescriptorDefault(column_name) ==
    CASE column_name = "zone" -> 4
      [] column_name = "age"  -> 0 - 9999
      [] OTHER                -> 0

\* C8: a compute request for a registered column without formula and
\* without input data does not fail: it returns member_count copies of the
\* default value of the descriptor, and the Holder is EMPTY afterwards.
C8_DefaultFill ==
    \A s \in instances :
        ( /\ Finished(s)
          /\ result[s].column \in RegisteredColumns
          /\ ~HasFormula(result[s].column)
          /\ HolderOf(s, result[s].column).state # "INPUT" )
        => LET c == result[s].column IN
           /\ result[s].kind = "value"
           /\ result[s].values =
                [i \in 1..member_count(OwnerOf(c)) |-> DescriptorDefault(c)]
           /\ HolderOf(s, c).state = "EMPTY"
           /\ HolderOf(s, c).values = result[s].values

\* zone, declared with the default 4 and without formula, was requested
C8_Witness ==
    /\ tax_benefit_system = "fiscal"
    /\ Finished("actual")
    /\ result["actual"].column = "zone"
    /\ result["actual"].values = [i \in 1..HouseholdCount |-> 4]
    /\ HolderOf("actual", "zone").state = "EMPTY"

----------------------------------------------------------------------------
(* C9 *)

\* the table a reference denotes
TableOf(reference) == tables[Get(reference)]

\* every cell of the data was computed by the parameters it was requested for
DataIsUnder(d) ==
    d # None => \A p \in Prestations : Get(d).by[p] \in {None, Get(d).under}

\* C9: in reform mode output_table and output_table_default are two tables,
\* so no cache cell is shared; whatever the order of _compute and calculate
\* requests, every cell of the baseline table was computed by the default
\* parameters, every cell of the actual table by its own parameters, and
\* data and data_default hold no value computed by the other snapshot.
C9_NoSharedCache ==
    reforme =>
        /\ output_table # None => output_table # output_table_default
        /\ output_table_default # None =>
              \A p \in Prestations :
                  TableOf(output_table_default).cells[p].by
                      \in {None, TableOf(output_table_default).default_param}
        /\ output_table # None =>
              \A p \in Prestations :
                  TableOf(output_table).cells[p].by
                      \in {None, TableOf(output_table).param}
        /\ DataIsUnder(data)
        /\ DataIsUnder(data_default)

\* a _compute in reform mode with two different snapshots: each data was
\* computed by its own
C9_Witness ==
    /\ reforme
    /\ step = "compute_tables"
    /\ data # None
    /\ data_default # None
    /\ Get(data).under # Get(data_default).under
    /\ Get(data).by["tax"] = Get(data).under
    /\ Get(data_default).by["tax"] = Get(data_default).under
    /\ TableOf(output_table).cells["tax"].state = "COMPUTED"
    /\ TableOf(output_table_default).cells["tax"].state = "COMPUTED"

----------------------------------------------------------------------------
(* C10 *)

\* tax as the formula gives it for an input array and a snapshot
TaxFor(salary, legislation) ==
    [i \in 1..Len(salary) |-> (salary[i] * legislation.rate) \div 10]

\* a computed tax cell of a table holds the formula of the input table and
\* of the snapshot given
TaxIsFor(table, snapshot) ==
    table.cells["tax"].state = "COMPUTED" =>
        /\ table.inputs = input_table
        /\ table.cells["tax"].values = TaxFor(Get(input_table), Get(snapshot))

\* the scenario: 0.1 gives [100, 0, 50] and 0.2 gives [200, 0, 100]
ScenarioTax(table, snapshot) ==
    ( /\ table.cells["tax"].state = "COMPUTED"
      /\ Get(input_table) = <<1000, 0, 500>> )
    => /\ Get(snapshot).rate = 1 => table.cells["tax"].values = <<100, 0, 50>>
       /\ Get(snapshot).rate = 2 => table.cells["tax"].values = <<200, 0, 100>>

\* C10: in reform mode both tables read the input table, and whichever is
\* calculated first, the tax of output_table is the formula under P and the
\* tax of output_table_default the formula under P_default (the default
\* parameters both tables were made with): [100, 0, 50] and [200, 0, 100]
\* for salary [1000, 0, 500] and the rates 0.1 and 0.2.
C10_ReformResults ==
    (reforme /\ output_table # None /\ output_table_default # None) =>
        LET actual == TableOf(output_table)
            default == TableOf(output_table_default) IN
        /\ actual.inputs = default.inputs
        /\ TaxIsFor(actual, actual.param)
        /\ TaxIsFor(default, default.default_param)
        /\ ScenarioTax(actual, actual.param)
        /\ ScenarioTax(default, default.default_param)
        /\ step = "compute_tables" =>
              /\ actual.param = P
              /\ default.default_param = P_default
              /\ Get(data).values["tax"] = actual.cells["tax"].values
              /\ Get(data_default).values["tax"] = default.cells["tax"].values

\* the baseline was calculated before the actual table, on the scenario
C10_Witness ==
    /\ reforme
    /\ step = "calculate"
    /\ output_table # None
    /\ output_table_default # None
    /\ Get(input_table) = <<1000, 0, 500>>
    /\ TableOf(output_table).param = Some([rate |-> 1])
    /\ TableOf(output_table).default_param = Some([rate |-> 2])
    /\ TableOf(output_table).cells["tax"].values = <<100, 0, 50>>
    /\ TableOf(output_table_default).cells["tax"].values = <<200, 0, 100>>
    /\ data = None

----------------------------------------------------------------------------
(* C12 *)

\* a value has just been converted by the column
Converted == step = "json_to_python"

\* the column is an EnumCol with an enum
Enumerated == column.class = "EnumCol" /\ column.enum # None

\* the indexes of the enum of the column
Codes == DOMAIN Get(column.enum)

\* the value is the default of the descriptor when it is an index of the
\* enum, and otherwise the lowest index
IsFallback(value) ==
    /\ value.type = "int"
    /\ value.n \in Codes
    /\ IntOf(column._default) \in Codes => value.n = IntOf(column._default)
    /\ IntOf(column._default) \notin Codes => \A code \in Codes : value.n <= code

\* an integer that is no index of the enum
OutsideCode(value) == value.type = "int" /\ value.n \notin Codes

\* a string that writes no number and whose slug is the slug of no label
UnknownLabel(value) ==
    /\ value.type = "str"
    /\ ParseInt(value.s) = None
    /\ ParseFloat(value.s) = None
    /\ slugify(value.s) # <<>>
    /\ \A code \in Codes : slugify(Get(column.enum)[code]) # slugify(value.s)

----------------------------------------------------------------------------
(* C13 *)

----------------------------------------------------------------------------
(* C14 *)

\* C14: the converter of an AgesCol returns an integer without error exactly
\* when it is greater than or equal to 0 or is -9999, and then returns it
\* as it is; every other negative integer is returned with an error.
C14_AgeRange ==
    (Converted /\ column.class = "AgesCol" /\ json_value.type = "int") =>
        /\ python_value.error = "" <=> (json_value.n >= 0 \/ json_value.n = -9999)
        /\ python_value.value = json_value

\* -9999 is accepted
C14_Witness ==
    /\ Converted
    /\ column.class = "AgesCol"
    /\ json_value = JsonInt(-9999)
    /\ python_value = Ok(JsonInt(-9999))

----------------------------------------------------------------------------
(* C15 *)

\* C15 as stated, on the inputs that are not null: the converter of a
\* BoolCol returns without error 0, 1, true and false and nothing else.
C15_BooleanLikeOnly ==
    (Converted /\ column.class = "BoolCol" /\ json_value # JsonNull) =>
        (python_value.error = ""
            <=> json_value \in {JsonInt(0), JsonInt(1), JsonBool(TRUE), JsonBool(FALSE)})

\* C15 amended: the converter of a BoolCol returns a boolean for every
\* boolean and for every integer (false for 0, true for any other integer),
\* returns an absent value as it is, and returns every float and every
\* string with an error.
C15_BooleanOfInteger ==
    (Converted /\ column.class = "BoolCol") =>
        /\ json_value.type = "bool" => python_value = Ok(json_value)
        /\ json_value.type = "int" => python_value = Ok(JsonBool(json_value.n # 0))
        /\ json_value = JsonNull => python_value = Ok(JsonNull)
        /\ json_value.type \in {"float", "str"} =>
              (python_value.error # "" /\ python_value.value = json_value)

\* the integer 7 converted to true
C15_Witness ==
    /\ Converted
    /\ column.class = "BoolCol"
    /\ json_value = JsonInt(7)
    /\ python_value = Ok(JsonBool(TRUE))

----------------------------------------------------------------------------
(* C16 *)

\* C16: the converter of an IntCol returns every integer without error, the
\* converter of a FloatCol returns every integer and every float without
\* error, and both return every string with an error, also a string that
\* writes a number.
C16_NumericScalars ==
    Converted =>
        /\ (column.class = "IntCol" /\ json_value.type = "int") =>
              python_value.error = ""
        /\ (column.class = "FloatCol" /\ json_value.type \in {"int", "float"}) =>
              python_value.error = ""
        /\ (column.class \in {"IntCol", "FloatCol"} /\ json_value.type = "str") =>
              python_value.error # ""

----------------------------------------------------------------------------
(* C17 *)

\* the value is of the kind of values of the class of column
OfKind(class, value) ==
    CASE class = "BoolCol" -> value.type = "bool"
      [] class = "DateCol" -> value.type = "date"
      [] class = "FloatCol" -> value.type = "float"
      [] OTHER -> isinstance(value, {"int"})

\* the value a document gives is absent: null, or a blank string
Absent(value) == value = JsonNull \/ (value.type = "str" /\ Strip(value.s) = <<>>)

\* C17 as stated: for every class of column and every input, the converter
\* returns either an error or a value of the kind of the column; a null
\* input never comes back as a null without error.
C17_ValueOrError ==
    Converted =>
        (python_value.error = "" => OfKind(column.class, python_value.value))

\* C17 amended: for every class of column and every input that is not
\* absent, the converter returns either an error or a value of the kind of
\* the column; a null input comes back as null without error from every
\* column but an EnumCol, which returns its default, and a null value is
\* returned without error for an absent input only.
C17_ValueErrorOrAbsent ==
    Converted =>
        /\ ~Absent(json_value) =>
              (python_value.error = "" => OfKind(column.class, python_value.value))
        /\ json_value = JsonNull =>
              IF column.class = "EnumCol"
                  THEN python_value = Ok(column._default)
                           \/ (Enumerated /\ python_value.error = ""
                                  /\ IsFallback(python_value.value))
                  ELSE python_value = Ok(JsonNull)
        /\ (python_value.error = "" /\ python_value.value = JsonNull) =>
              Absent(json_value)

\* a null returned as a valid date
C17_Witness ==
    /\ Converted
    /\ column.class = "DateCol"
    /\ json_value = JsonNull
    /\ python_value = Ok(JsonNull)

----------------------------------------------------------------------------
(* C11 *)

\* the formula on top of the stack has its inputs and raises on them
RaisesNow(s) ==
    /\ stack[s] # <<>>
    /\ LET top == stack[s][Len(stack[s])] IN
       /\ Len(top.args) = Len(required_inputs(top.name))
       /\ formula_raises(top.name, top.args) # ""

\* the invocation of a formula that raises: the external request ends with
\* the exception of the formula, at the column of the formula, without
\* values; the formula was invoked once and no other; no Holder changed and
\* no formula that was in evaluation has a COMPUTED Holder
RaisedToCaller(s) ==
    LET top == stack[s][Len(stack[s])] IN
    /\ result'[s].kind = formula_raises(top.name, top.args)
    /\ result'[s].at = top.name
    /\ result'[s].column = result[s].column
    /\ result'[s].values = <<>>
    /\ stack'[s] = <<>>
    /\ invoked'[s][top.name] = Bump(invoked[s][top.name])
    /\ \A c \in RegisteredColumns \ {top.name} : invoked'[s][c] = invoked[s][c]
    /\ holder_by_name' = holder_by_name
    /\ \A c \in InProgress(s) : HolderOf(s, c)'.state # "COMPUTED"

\* C11: when a formula raises, at any depth of the chain of required inputs,
\* the external caller receives the exception of the formula; the formula is
\* not invoked again, no default value is returned in its place, and the
\* Holder of the column and of every column in evaluation above it is not
\* COMPUTED.
C11_FormulaErrorPropagates ==
    [][\A s \in instances :
          (RaisesNow(s) /\ step' = "invoke_formula") => RaisedToCaller(s)]_vars

\* relief requires quotient, which divides by the default value of parts
C11_Witness ==
    /\ step = "invoke_formula"
    /\ result["actual"].kind = "ZeroDivisionError"
    /\ result["actual"].column = "relief"
    /\ result["actual"].at = "quotient"
    /\ result["actual"].values = <<>>
    /\ HolderOf("actual", "quotient").state = "EMPTY"
    /\ HolderOf("actual", "relief").state = "EMPTY"
    /\ invoked["actual"]["quotient"] = 1
    /\ invoked["actual"]["relief"] = 0

----------------------------------------------------------------------------
(* C19 *)

\* the dict of a Simulation maps exactly the columns that the entities
\* declare, each to an entity that declares it; the Holders of a column are
\* in that entity only, and a value returned has its number of members
OwnersAreDeclarers(s) ==
    LET ebc == Get(entity_by_column_name[s]) IN
    /\ DOMAIN ebc = RegisteredColumns
    /\ \A c \in DOMAIN ebc :
          /\ ebc[c] \in EntityKinds
          /\ c \in ColumnNames(tax_benefit_system, ebc[c])
          /\ \A e \in EntityKinds \ {ebc[c]} : holder_by_name[s][e][c].state = "ABSENT"
    /\ result[s].kind = "value" =>
          Len(result[s].values) = member_count(ebc[result[s].column])

\* a call of Simulation.compute for a declared column goes to its entity: a
\* formula that starts its evaluation is in evaluation in that entity
RoutedToOwner(s) ==
    (step' \in CallSteps /\ TheCall'.outcome = "entity"
        /\ Len(stack'[s]) > Len(stack[s])) =>
        LET top == stack'[s][Len(stack'[s])] IN
        /\ top.name = TheCall'.column
        /\ top.entity = Get(entity_by_column_name[s])[TheCall'.column]
        /\ top.name \in ColumnNames(tax_benefit_system, top.entity)

\* C19: after set_entities every column that an entity declares maps to one
\* entity, which declares it, and compute sends each request to that entity;
\* no later step changes the dict.
C19_OwnerMapping ==
    /\ [](\A s \in instances :
            entity_by_column_name[s] # None => OwnersAreDeclarers(s))
    /\ [][\A s \in instances :
            entity_by_column_name[s] # None =>
                /\ entity_by_column_name'[s] = entity_by_column_name[s]
                /\ RoutedToOwner(s)]_vars

\* a column of the households computed in the entity of the households
C19_Witness ==
    /\ step = "compute"
    /\ entity_by_column_name["actual"] # None
    /\ tax_benefit_system = "fiscal"
    /\ Get(entity_by_column_name["actual"])["zone"] = "men"
    /\ result["actual"].kind = "value"
    /\ result["actual"].column = "zone"
    /\ Len(result["actual"].values) = HouseholdCount
    /\ holder_by_name["actual"]["men"]["zone"].state # "ABSENT"

----------------------------------------------------------------------------
(* C18 *)

\* a set_input that is accepted leaves the Holder INPUT with an array of the
\* length of the entity, and the other Holders as they were
InputIsStored(s) ==
    (step' = "set_input" /\ TheCall'.outcome = "INPUT") =>
        \A c \in RegisteredColumns :
            IF c = TheCall'.column
                THEN /\ HolderOf(s, c)'.state = "INPUT"
                     /\ HolderOf(s, c)'.values \in InputArrays
                ELSE HolderOf(s, c)' = HolderOf(s, c)

\* an INPUT Holder stays INPUT until it is cleared, and no compute request
\* changes it nor invokes its formula
InputStaysInput(s) ==
    \A c \in RegisteredColumns :
        HolderOf(s, c).state = "INPUT" =>
            /\ ~(step' = "clear_holder" /\ TheCall'.column = c) =>
                  HolderOf(s, c)'.state = "INPUT"
            /\ step' \notin {"clear_holder", "set_input"} =>
                  /\ HolderOf(s, c)' = HolderOf(s, c)
                  /\ invoked'[s][c] = invoked[s][c]

\* clear leaves the Holder EMPTY without values, and the other Holders, the
\* supplied inputs among them, as they were
ClearEmptiesOne(s) ==
    step' = "clear_holder" =>
        \A c \in RegisteredColumns :
            IF c = TheCall'.column
                THEN HolderOf(s, c)' = NewHolder
                ELSE HolderOf(s, c)' = HolderOf(s, c)

\* a compute request for an EMPTY column with a formula starts its
\* evaluation, and the invocation that ends it stores the result of the
\* formula on the inputs it resolved
EmptyIsEvaluated(s) ==
    /\ \A c \in RegisteredColumns :
          ( /\ step' = "compute"
            /\ TheCall'.column = c
            /\ TheCall'.outcome = "entity"
            /\ HasFormula(c)
            /\ HolderOf(s, c).state \in {"ABSENT", "EMPTY"} ) =>
              (Len(stack'[s]) = 1 /\ stack'[s][1].name = c)
    /\ (step' = "invoke_formula" /\ ~RaisesNow(s)) =>
          LET top == stack[s][Len(stack[s])] IN
          \A c \in RegisteredColumns :
              c = top.name =>
                  /\ HolderOf(s, c)'.state = "COMPUTED"
                  /\ HolderOf(s, c)'.values =
                        compute_fn(c, top.args, compact_legislation[s])
                  /\ invoked'[s][c] = Bump(invoked[s][c])

\* C18: after set_input the Holder is INPUT and stays INPUT, unchanged by
\* any compute request, until it is cleared; clear leaves it EMPTY without
\* values and leaves the input of the other columns as it was, and the next
\* compute request for the column evaluates its formula again.
C18_HolderLifecycle ==
    [][\A s \in instances :
          /\ InputIsStored(s)
          /\ InputStaysInput(s)
          /\ ClearEmptiesOne(s)
          /\ EmptyIsEvaluated(s)]_vars

\* the input given for tax is cleared: the Holder of tax is EMPTY, the input
\* of salary is kept
C18_Witness ==
    /\ step = "clear_holder"
    /\ TheCall.column = "tax"
    /\ TheCall.found = "INPUT"
    /\ HolderOf("actual", "tax") = NewHolder
    /\ HolderOf("actual", "salary").state = "INPUT"
    /\ HolderOf("actual", "salary").values = Cyclic(Base3, MemberCount)

----------------------------------------------------------------------------
(* C20 *)

\* every populated Holder of an entity, and every value returned for one of
\* its columns, has one element for each member of the entity
HoldersShareLength ==
    \A s \in instances :
        /\ \A e \in EntityKinds, c \in AllNames :
              LET holder == holder_by_name[s][e][c] IN
              (holder.state \in {"INPUT", "COMPUTED"} \/ holder.values # <<>>) =>
                  Len(holder.values) = member_count(e)
        /\ result[s].kind = "value" =>
              Len(result[s].values) = member_count(OwnerOf(result[s].column))

\* an array of another length given to set_input is reported and not stored
MismatchIsReported ==
    \A s \in instances :
        (step' = "set_input" /\ TheCall'.outcome # "INPUT") =>
            /\ TheCall'.outcome = "EntityLengthMismatchError"
            /\ "EntityLengthMismatchError" \in raised'[s]
            /\ holder_by_name' = holder_by_name
            /\ result' = result

\* C20: every populated Holder of an entity (input, computed or filled with
\* the default) has member_count elements, as has every result returned; an
\* array of another length is reported as EntityLengthMismatchError and is
\* neither stored nor returned.
C20_HoldersShareLength ==
    /\ []HoldersShareLength
    /\ [][MismatchIsReported]_vars

\* an array one short is given for a computed column and is refused
C20_Witness ==
    /\ step = "set_input"
    /\ TheCall.column = "tax"
    /\ TheCall.outcome = "EntityLengthMismatchError"
    /\ "EntityLengthMismatchError" \in raised["actual"]
    /\ HolderOf("actual", "tax").state = "COMPUTED"
    /\ Len(HolderOf("actual", "tax").values) = MemberCount

----------------------------------------------------------------------------
(* C21 *)

\* the operations that are a compute request or a step of one
ComputeSteps == {"compute", "request_input", "invoke_formula", "compute_tables"}

\* no step of a compute request binds or changes the snapshots
ComputeKeepsLegislation ==
    step' \in ComputeSteps =>
        /\ P' = P
        /\ P_default' = P_default
        /\ compact_legislation' = compact_legislation
        /\ default_compact_legislation' = default_compact_legislation

\* the entity-driven Simulation holds the snapshots of its construction
HoldsConstructionValues ==
    \A s \in instances :
        /\ compact_legislation[s] = InitCompactLegislation(GivenLegislation(s))
        /\ default_compact_legislation[s] = BaselineLegislation

\* the caller gave set_param one object as both param and param_default
OneObjectGiven ==
    /\ last_params # None
    /\ Get(last_params).param # None
    /\ Get(last_params).param = Get(last_params).param_default

\* C21 as stated: no step of a compute request, successful or failing,
\* changes legislation or default_legislation, the entity-driven Simulation
\* holds the snapshots of its construction, and a change made to the actual
\* legislation is never read through default_legislation.
C21_LegislationFrame ==
    [][ /\ ComputeKeepsLegislation
        /\ HoldsConstructionValues'
        /\ step' = "change_param" => P_default' = P_default ]_vars

\* C21, amended: as stated, but a change made to the actual legislation is
\* kept from default_legislation only when set_param read the parameter file
\* (the tree is deep-copied) or was given two objects; given one object for
\* both, the change is read through default_legislation as well.
C21_LegislationFrameUnlessShared ==
    [][ /\ ComputeKeepsLegislation
        /\ HoldsConstructionValues'
        /\ (step' = "change_param" /\ ~OneObjectGiven) => P_default' = P_default
        /\ (step' = "change_param" /\ OneObjectGiven) => P_default' = P' ]_vars

\* set_param read the file for both snapshots, a _compute and a compute
\* request succeeded, another failed, and the caller then changed P: P has
\* the new rate and P_default the rate of the file
C21_Witness ==
    /\ step = "change_param"
    /\ last_params = Some([param |-> None, param_default |-> None])
    /\ Get(P).rate # FileLegislation.rate
    /\ Get(P_default) = FileLegislation
    /\ data # None
    /\ \E s \in instances :
          /\ "UnknownVariableError" \in raised[s]
          /\ to_computed[s]["tax"] > 0
----------------------------------------------------------------------------
(* C22 *)

\* everything one Simulation owns
SimulationState(s) ==
    <<entity_by_column_name[s], holder_by_name[s], stack[s], result[s],
      invoked[s], to_computed[s], raised[s], compact_legislation[s],
      default_compact_legislation[s]>>

\* a step is a step of one Simulation: it leaves the other as it was
OneSimulationSteps ==
    \A s \in instances, t \in instances :
        (s # t /\ SimulationState(s)' # SimulationState(s))
            => SimulationState(t)' = SimulationState(t)

\* what a Simulation that runs alone returns for a column of the registry
SequentialValues(s, column_name) ==
    LET salary == holder_by_name[s]["ind"]["salary"].values IN
    IF column_name = "salary" THEN salary
    ELSE compute_fn("tax", <<salary>>, compact_legislation[s])

\* the kind of outcome a Simulation that runs alone gives to a request
SequentialKind(s, request) ==
    IF request.origin = "explicit" THEN "CyclicDependencyError"
    ELSE IF entity_by_column_name[s] = None THEN "TypeError"
    ELSE IF request.column \notin Columns(tax_benefit_system)
        THEN "UnknownVariableError"
    ELSE "value"

\* the request of a Simulation that ends in this step ends as it does when
\* the Simulation runs alone
EndsAsAlone(s) ==
    (result'[s] # result[s] /\ result'[s].kind # "pending") =>
        /\ result'[s].kind = SequentialKind(s, result'[s])
        /\ result'[s].kind = "value" =>
              result'[s].values = SequentialValues(s, result'[s].column)

\* the Holders of a Simulation are those it has when it runs alone: the
\* input as loaded, tax absent, in evaluation, or computed once from the
\* Simulation's own input and legislation
HoldersAsAlone(s) ==
    LET salary == holder_by_name[s]["ind"]["salary"]
        tax == holder_by_name[s]["ind"]["tax"] IN
    /\ salary.state = "INPUT"
    /\ \A t \in instances : holder_by_name[t]["ind"]["salary"] = salary
    /\ tax.state \in {"ABSENT", "EMPTY", "COMPUTED"}
    /\ tax.state = "EMPTY" <=> "tax" \in InProgress(s)
    /\ tax.state = "COMPUTED" =>
          /\ tax.values = SequentialValues(s, "tax")
          /\ invoked[s]["tax"] = 1
          /\ to_computed[s]["tax"] = 1
    /\ tax.state # "COMPUTED" => invoked[s]["tax"] = 0

\* C22: two Simulations that share only the legislation snapshots and the
\* registry compute under every interleaving of their steps as each does
\* alone: a step changes the state of one Simulation only, every request
\* ends with the outcome of a sequential run, and the Holders of each are
\* those of a sequential run.
C22_IndependentSimulations ==
    [][ /\ OneSimulationSteps
        /\ \A s \in instances : EndsAsAlone(s)
        /\ \A s \in instances : HoldersAsAlone(s)' ]_vars

\* the reform is evaluating tax, its input resolved; the baseline resolved
\* its input after that and has returned its own tax, [200, 0, 100], before
\* the reform invoked its formula
C22_Witness ==
    /\ instances = Simulations
    /\ stack["actual"] # <<>>
    /\ Len(stack["actual"][1].args) = 1
    /\ stack["baseline"] = <<>>
    /\ result["baseline"].kind = "value"
    /\ result["baseline"].column = "tax"
    /\ result["baseline"].values = <<200, 0, 100>>
    /\ holder_by_name["baseline"]["ind"]["tax"].state = "COMPUTED"
    /\ holder_by_name["actual"]["ind"]["tax"].state = "EMPTY"
    /\ last_call # None
    /\ Get(last_call).sim = "baseline"
    /\ Get(last_call).origin = "entity"
----------------------------------------------------------------------------
(* C23 *)

\* C23: a call of to_json leaves every field of the descriptor as it was,
\* the enum and the index of its slugs included, and two calls on one
\* descriptor return the same record (or raise the same error), whatever
\* was converted between them.
C23_ExportIsPure ==
    [][ step' = "to_json" =>
            /\ column' = column
            /\ json_value' = json_value
            /\ python_value' = python_value
            /\ Len(exported') = 2 => exported'[1] = exported'[2] ]_vars

\* an EnumCol with labels that differ from their slugs was exported, then
\* converted a label (the index was built), then exported again: the two
\* records are there, with the labels table
C23_Witness ==
    /\ step = "to_json"
    /\ column.class = "EnumCol"
    /\ column.enum = Some(Famille)
    /\ column.index_by_slug # None
    /\ python_value.error = ""
    /\ json_value.type = "str"
    /\ Len(exported) = 2
    /\ exported[2].error = ""
    /\ Get(exported[2].record)["labels"] = Famille
    /\ Get(exported[2].record)["@type"] = "Enumeration"
----------------------------------------------------------------------------
(* C24 *)

\* the slugs of the labels of an enum
SlugsOf(vars_) == {slugify(vars_[index]) : index \in DOMAIN vars_}

\* an index of an enum: one entry per slug of a label, at a code that has a
\* label of that slug
IsIndexOf(index_by_slug, vars_) ==
    /\ DOMAIN index_by_slug = SlugsOf(vars_)
    /\ \A slug \in DOMAIN index_by_slug :
          /\ index_by_slug[slug] \in DOMAIN vars_
          /\ slugify(vars_[index_by_slug[slug]]) = slug

\* C24: the index of the slugs of an EnumCol with an enum is absent as long
\* as nothing was converted, is built by the first conversion with one entry
\* per slug of a label of the enum, and is the same after every later
\* conversion and export.
C24_LazyIndex ==
    /\ column.index_by_slug = None
    /\ [][ Enumerated' =>
               /\ column.index_by_slug = None =>
                     (column'.index_by_slug # None <=> step' = "json_to_python")
               /\ column.index_by_slug # None =>
                     column'.index_by_slug = column.index_by_slug
               /\ column'.index_by_slug # None =>
                     IsIndexOf(Get(column'.index_by_slug), Get(column'.enum))
               /\ column'.enum = column.enum ]_vars

\* an EnumCol whose two labels have one slug was exported twice and has
\* then converted a value it refuses: the index has the one slug, at the
\* higher index
C24_Witness ==
    /\ Enumerated
    /\ column.enum = Some(Etat)
    /\ step = "json_to_python"
    /\ python_value.error # ""
    /\ column.index_by_slug = Some(<<"m", "a", "r", "i", "e">> :> 1)
    /\ Len(exported) = 2
----------------------------------------------------------------------------
(* C25 *)

\* the default value of a prestation, one per row of the input table
DefaultValues(p) == Filled(Len(Get(input_table)), ColumnDefault(p))

\* a prestation is disabled in a table and holds its default value
DisabledIn(table, p) ==
    /\ table.cells[p].state = "DISABLED"
    /\ table.cells[p].values = DefaultValues(p)
    /\ table.cells[p].by = None

\* C25: after a _compute that did not fail, every prestation named in
\* disabled_prestations has its default value in data and in data_default
\* and is disabled in output_table and in output_table_default, in reform
\* mode (where the default table was reset and disabled again before its
\* calculation) as without it; the prestations not named are computed.
C25_DisabledStayDefault ==
    (step = "compute_tables" /\ failure = "") =>
        \A p \in Prestations :
            IF disabled_prestations # None /\ p \in Get(disabled_prestations)
                THEN /\ Get(data).values[p] = DefaultValues(p)
                     /\ Get(data_default).values[p] = DefaultValues(p)
                     /\ DisabledIn(TableOf(output_table), p)
                     /\ DisabledIn(TableOf(output_table_default), p)
                ELSE /\ TableOf(output_table).cells[p].state = "COMPUTED"
                     /\ TableOf(output_table_default).cells[p].state = "COMPUTED"

\* a _compute in reform mode with bonus disabled and two snapshots: bonus
\* is 0 for every row in both data while the taxes differ, so that a bonus
\* computed from them would not be 0
C25_Witness ==
    /\ reforme
    /\ step = "compute_tables"
    /\ failure = ""
    /\ disabled_prestations = Some({"bonus"})
    /\ Get(input_table) = <<1000, 0, 500>>
    /\ Get(data).values["bonus"] = <<0, 0, 0>>
    /\ Get(data_default).values["bonus"] = <<0, 0, 0>>
    /\ Get(data).values["tax"] # Get(data_default).values["tax"]
    /\ output_table # output_table_default
    /\ TableOf(output_table_default).cells["bonus"].state = "DISABLED"
----------------------------------------------------------------------------
(* C26 *)

\* C26 as stated: when SurveySimulation.compute returns, whatever
\* chunks_count is configured, output_table and output_table_default are
\* tables that hold the computed prestations of the survey, and data holds
\* their values.
C26_SurveyComputed ==
    (step = "survey_compute" /\ failure = "") =>
        /\ output_table # None
        /\ output_table_default # None
        /\ \A p \in Prestations :
              TableOf(output_table).cells[p].state \in {"COMPUTED", "DISABLED"}
        /\ data # None

\* what the source does: with chunks_count 1 the outputs are computed, with
\* any other count compute returns with the outputs cleared
C26_ComputedForOneChunk ==
    (step = "survey_compute" /\ failure = "") =>
        IF chunks_count = 1
            THEN /\ output_table # None
                 /\ \A p \in Prestations :
                       TableOf(output_table).cells[p].state
                           \in {"COMPUTED", "DISABLED"}
            ELSE output_table = None /\ output_table_default = None

\* compute returned with two chunks configured after an earlier compute with
\* one: the outputs are cleared, the data are those of the earlier compute
C26_Witness ==
    /\ step = "survey_compute"
    /\ failure = ""
    /\ chunks_count = 2
    /\ P # None
    /\ input_table = Some(SurveyData)
    /\ output_table = None
    /\ data # None
----------------------------------------------------------------------------
(* C27 *)

\* no cell of a table referred to holds a calculated value
NothingCalculated ==
    \A reference \in {output_table, output_table_default} :
        reference # None =>
            \A p \in Prestations : TableOf(reference).cells[p].state # "COMPUTED"

\* C27: ScenarioSimulation.compute called in reform mode with an
\* alternative scenario set ends with an error, leaves data and
\* data_default as they were before the call, and calculates nothing: the
\* tables it leaves are those _preproc made, no prestation calculated.
C27_ReformRefusesAlternative ==
    [][ (step' = "scenario_compute" /\ reforme /\ alternative_scenario # None) =>
            /\ failure' # ""
            /\ data' = data
            /\ data_default' = data_default
            /\ NothingCalculated' ]_vars

\* a compute in reform mode gave data, an alternative scenario was set, and
\* the next compute was refused: the data are still there, the tables are
\* new and not calculated
C27_Witness ==
    /\ step = "scenario_compute"
    /\ failure = "Exception"
    /\ reforme
    /\ alternative_scenario = Some(AlternativeData)
    /\ data # None
    /\ data_default # None
    /\ Get(data).values["tax"] # <<0, 0, 0>>
    /\ output_table = Some(ActualRef)
    /\ TableOf(output_table).cells["tax"].state = "EMPTY"
    /\ TableOf(output_table_default).cells["tax"].state = "EMPTY"
====
